---- MODULE Spec2Model ----
(***************************************************************************)
(* SAN7-ERP data-integration pipeline.                                     *)
(*   STEP-1  (R script)        crime CSV -> crimeunits2409.parquet         *)
(*   STEP-2  (2005-2009 nb)    ACS 2005-2009 + crime -> district tables    *)
(*   STEP-2  (2010-2020 nb)    ACS 2010-2020 + crime -> district tables    *)
(* Text is a sequence of one-character strings, a table is a set of rows   *)
(* (records), each row carrying the index of the frame it came from, and a *)
(* float is a record [k, n, d]: a fraction n/d, NaN or +inf.               *)
(***************************************************************************)
EXTENDS Integers, Sequences, FiniteSets, TLC

VARIABLES input, disk, running, rmode, pcR, renv, pc05, nb05, pc10, nb10

vars == <<input, disk, running, rmode, pcR, renv, pc05, nb05, pc10, nb10>>

(***************************************************************************)
(* Bounds of the model.                                                    *)
(***************************************************************************)
\* copies of each kind of crime record in the crime CSV
MaxCopies == 1
\* largest survey estimate of one tract
MaxPop == 2

(***************************************************************************)
(* Text                                                                    *)
(***************************************************************************)
DigitChars == <<"0", "1", "2", "3", "4", "5", "6", "7", "8", "9">>

RECURSIVE Digits(_)
\* str(n) / "%d" of a non-negative whole number
Digits(n) ==
  IF n < 10 THEN <<DigitChars[n + 1]>>
  ELSE Digits(n \div 10) \o <<DigitChars[(n % 10) + 1]>>

RECURSIVE ZFill(_, _)
\* str.zfill(width) / the 0 flag of sprintf
ZFill(s, width) == IF Len(s) >= width THEN s ELSE ZFill(<<"0">> \o s, width)

RECURSIVE LStrip0_AllZeros(_)
\* C23 variant: every '0' is removed, not only the leading ones
LStrip0_AllZeros(s) ==
  IF s = <<>> THEN s
  ELSE IF Head(s) = "0" THEN LStrip0_AllZeros(Tail(s))
  ELSE <<Head(s)>> \o LStrip0_AllZeros(Tail(s))

RECURSIVE LStrip0(_)
\* str.lstrip('0')
LStrip0(s) == IF s # <<>> /\ Head(s) = "0" THEN LStrip0(Tail(s)) ELSE s

DigitValue(c) == CHOOSE i \in 0..9 : DigitChars[i + 1] = c

IsDigits(s) == s # <<>> /\ \A i \in 1..Len(s) : \E j \in 1..10 : DigitChars[j] = s[i]

RECURSIVE ParseDigits(_)
ParseDigits(s) ==
  IF s = <<>> THEN 0
  ELSE 10 * ParseDigits(SubSeq(s, 1, Len(s) - 1)) + DigitValue(s[Len(s)])

(***************************************************************************)
(* Floats (pandas float64, exact fractions here), NaN and +inf             *)
(***************************************************************************)
RECURSIVE GCD(_, _)
GCD(a, b) == IF b = 0 THEN a ELSE GCD(b, a % b)

Frac(n, d) == LET g == GCD(n, d) IN [k |-> "num", n |-> n \div g, d |-> d \div g]
Whole(n) == [k |-> "num", n |-> n, d |-> 1]
NaN == [k |-> "nan", n |-> 0, d |-> 1]
Inf == [k |-> "inf", n |-> 0, d |-> 1]

IsNaN(x) == x.k = "nan"
IsNum(x) == x.k = "num"

\* float addition
FAdd(x, y) ==
  IF IsNaN(x) \/ IsNaN(y) THEN NaN
  ELSE IF x.k = "inf" \/ y.k = "inf" THEN Inf
  ELSE Frac(x.n * y.d + y.n * x.d, x.d * y.d)

\* float multiplication
FMul(x, y) ==
  IF IsNaN(x) \/ IsNaN(y) THEN NaN
  ELSE IF x.k = "inf" \/ y.k = "inf"
       THEN IF (IsNum(x) /\ x.n = 0) \/ (IsNum(y) /\ y.n = 0) THEN NaN ELSE Inf
  ELSE Frac(x.n * y.n, x.d * y.d)

\* float division of non-negative values: x/0 is +inf, 0/0 is NaN
FDiv(x, y) ==
  IF IsNaN(x) \/ IsNaN(y) THEN NaN
  ELSE IF y.k = "inf" THEN (IF x.k = "inf" THEN NaN ELSE Whole(0))
  ELSE IF x.k = "inf" THEN Inf
  ELSE IF y.n = 0 THEN (IF x.n = 0 THEN NaN ELSE Inf)
  ELSE Frac(x.n * y.d, x.d * y.n)

\* x >= 0 as pandas evaluates it: False for NaN
FGeZero(x) == x.k = "inf" \/ (IsNum(x) /\ x.n >= 0)

\* C8 variant: a fillna that fills nothing
FillNa0_Keep(x) == x

\* Series.fillna(0) on one value
FillNa0(x) == IF IsNaN(x) THEN Whole(0) ELSE x

RECURSIVE SumOver(_, _)
\* sum of column col over a set of rows (no NaN skipped)
SumOver(rows, col) ==
  IF rows = {} THEN Whole(0)
  ELSE LET r == CHOOSE r \in rows : TRUE
       IN FAdd(r[col], SumOver(rows \ {r}, col))

\* groupby(...).agg('sum') / DataFrame.sum(axis=1): NaN is skipped
SumSkipNa(rows, col) == SumOver({r \in rows : ~IsNaN(r[col])}, col)

\* groupby(...).agg('mean'): NaN is skipped, the mean of nothing is NaN
MeanSkipNa(rows, col) ==
  LET live == {r \in rows : ~IsNaN(r[col])}
  IN IF live = {} THEN NaN ELSE FDiv(SumOver(live, col), Whole(Cardinality(live)))

(***************************************************************************)
(* Running a script: statements (cells) in file order, one script at a     *)
(* time.  pc is the statement about to run, "idle" before the script is    *)
(* started, "done" after its last statement, "halted" after an error that  *)
(* stopped it.                                                             *)
(***************************************************************************)
IndexOf(seq, x) == CHOOSE i \in 1..Len(seq) : seq[i] = x

After(seq, x) == IF IndexOf(seq, x) = Len(seq) THEN "done" ELSE seq[IndexOf(seq, x) + 1]

Ended(pc) == pc \in {"done", "halted"}

Exists(file) == file # input.missing

(***************************************************************************)
(* STEP-1-CRIME-DATA-FILTERING-R.R                                         *)
(***************************************************************************)
Step1Statements ==
  <<"library", "read_csv", "st_read", "unique_post_2012", "print_unique_pre_2012",
    "as_numeric", "sprintf", "mdy_hms", "filter_date", "select",
    "filter_district", "recode", "case_when", "write_parquet">>

\* packages attached by the library() calls of lines 3-7 (tidyverse attaches its core)
AttachedPackages == {"tidyverse", "dplyr", "readr", "arrow", "lubridate", "tidyr",
                     "tibble", "purrr", "stringr", "forcats", "ggplot2"}

\* the package that provides each function the script calls
PackageOf(fn) ==
  CASE fn = "read_csv" -> "readr"
    [] fn = "st_read" -> "sf"
    [] fn \in {"mutate", "filter", "select", "recode", "case_when"} -> "dplyr"
    [] fn = "mdy_hms" -> "lubridate"
    [] fn = "write_parquet" -> "arrow"
    [] OTHER -> "base"

Callable(fn) == PackageOf(fn) = "base" \/ PackageOf(fn) \in renv.libs

NAnum == [na |-> TRUE, v |-> 0]
NAtime == [na |-> TRUE, y |-> 0, mo |-> 0, d |-> 0, s |-> 0]
\* a missing Primary Type (NA_character_)
NAtype == "<NA>"

\* as.numeric on a character value: NA for anything that is not a number
AsNumeric(text) == IF IsDigits(text) THEN [na |-> FALSE, v |-> ParseDigits(text)] ELSE NAnum

\* sprintf("%03d", x): NA is printed as NA, padded with blanks
Sprintf03d(x) == IF x.na THEN <<" ", "N", "A">> ELSE ZFill(Digits(x.v), 3)

DaysIn(mo, y) ==
  IF mo \in {4, 6, 9, 11} THEN 30
  ELSE IF mo = 2 THEN (IF y % 4 = 0 /\ (y % 100 # 0 \/ y % 400 = 0) THEN 29 ELSE 28)
  ELSE 31

\* lubridate::mdy_hms on the text fields <<month, day, year, second of day>>:
\* a text that is no such date-time becomes NA (with a warning, no error)
Mdy_hms(text) ==
  IF /\ Len(text) = 4
     /\ text[1] \in 1..12
     /\ text[2] \in 1..DaysIn(text[1], text[3])
     /\ text[4] \in 0..86399
  THEN [na |-> FALSE, y |-> text[3], mo |-> text[1], d |-> text[2], s |-> text[4]]
  ELSE NAtime

\* as.Date("yyyy-mm-dd") seen as a date-time: midnight of that day
AsDate(y, mo, d) == [na |-> FALSE, y |-> y, mo |-> mo, d |-> d, s |-> 0]

TimeLe(a, b) ==
  \/ a.y < b.y
  \/ a.y = b.y /\ a.mo < b.mo
  \/ a.y = b.y /\ a.mo = b.mo /\ a.d < b.d
  \/ a.y = b.y /\ a.mo = b.mo /\ a.d = b.d /\ a.s <= b.s

\* C9 variant: a filter that keeps the rows whose Date is NA
InDateRange_KeepNA(t) ==
  t.na \/ (TimeLe(AsDate(2004, 1, 1), t) /\ TimeLe(t, AsDate(2020, 12, 31)))

\* Date >= as.Date("2004-01-01") & Date <= as.Date("2020-12-31"); NA is not kept
InDateRange(t) ==
  /\ ~t.na
  /\ TimeLe(AsDate(2004, 1, 1), t)
  /\ TimeLe(t, AsDate(2020, 12, 31))

T3(a, b, c) == <<a, b, c>>

\* C19 variant: a list that also has '031'
districts_With031 ==
  {ZFill(Digits(n), 3) : n \in 1..25} \cup {T3("0","3","1")}

districts ==
  {T3("0","0","1"), T3("0","0","2"), T3("0","0","3"), T3("0","0","4"), T3("0","0","5"),
   T3("0","0","6"), T3("0","0","7"), T3("0","0","8"), T3("0","0","9"), T3("0","1","0"),
   T3("0","1","1"), T3("0","1","2"), T3("0","1","3"), T3("0","1","4"), T3("0","1","5"),
   T3("0","1","6"), T3("0","1","7"), T3("0","1","8"), T3("0","1","9"), T3("0","2","0"),
   T3("0","2","1"), T3("0","2","2"), T3("0","2","3"), T3("0","2","4"), T3("0","2","5")}

\* C18 variant: a mapping without "023" = "019"
district_mapping_No023(d) ==
  CASE d = T3("0","1","3") -> T3("0","1","2")
    [] d = T3("0","2","1") -> T3("0","0","2")
    [] OTHER -> d

\* recode(District, "013" = "012", "021" = "002", "023" = "019")
district_mapping(d) ==
  CASE d = T3("0","1","3") -> T3("0","1","2")
    [] d = T3("0","2","1") -> T3("0","0","2")
    [] d = T3("0","2","3") -> T3("0","1","9")
    [] OTHER -> d

ViolentTypes ==
  {"ROBBERY", "CRIMINAL SEXUAL ASSAULT", "OFFENSE INVOLVING CHILDREN", "CRIM SEXUAL ASSAULT",
   "ASSAULT", "SEX OFFENSE", "BATTERY", "HOMICIDE", "STALKING", "KIDNAPPING", "INTIMIDATION"}

PropertyTypes ==
  {"THEFT", "DECEPTIVE PRACTICE", "BURGLARY", "MOTOR VEHICLE THEFT",
   "CRIMINAL TRESPASS", "CRIMINAL DAMAGE", "ARSON"}

DrugTypes == {"NARCOTICS", "OTHER NARCOTIC VIOLATION"}

PublicOrderTypes ==
  {"WEAPONS VIOLATION", "LIQUOR LAW VIOLATION", "PUBLIC PEACE VIOLATION", "PROSTITUTION",
   "GAMBLING", "INTERFERENCE WITH PUBLIC OFFICER", "OBSCENITY", "PUBLIC INDECENCY"}

AdministrativeTypes ==
  {"NON-CRIMINAL", "NON - CRIMINAL", "NON-CRIMINAL (SUBJECT SPECIFIED)",
   "CONCEALED CARRY LICENSE VIOLATION", "HUMAN TRAFFICKING", "OTHER OFFENSE"}

\* the clauses of the case_when, in the order of the script
\* C6 variant: ASSAULT listed under property crime too, the property clause first
CategoryClauses_Overlap ==
  <<[types |-> PropertyTypes \cup {"ASSAULT"}, label |-> "Property Crime"],
    [types |-> ViolentTypes, label |-> "Violent Crime"],
    [types |-> DrugTypes, label |-> "Drug-Related Crime"],
    [types |-> PublicOrderTypes, label |-> "Public Order Crime"],
    [types |-> AdministrativeTypes, label |-> "Administrative or Non-Criminal"]>>

CategoryClauses ==
  <<[types |-> ViolentTypes, label |-> "Violent Crime"],
    [types |-> PropertyTypes, label |-> "Property Crime"],
    [types |-> DrugTypes, label |-> "Drug-Related Crime"],
    [types |-> PublicOrderTypes, label |-> "Public Order Crime"],
    [types |-> AdministrativeTypes, label |-> "Administrative or Non-Criminal"]>>

\* case_when over a list of clauses: the first clause that matches, else 'Other'
\* (NA %in% x is FALSE, so a missing Primary Type falls through to 'Other')
CaseWhen(clauses, type) ==
  IF \E i \in 1..Len(clauses) : type \in clauses[i].types
  THEN clauses[CHOOSE i \in 1..Len(clauses) :
                 /\ type \in clauses[i].types
                 /\ \A j \in 1..(i - 1) : type \notin clauses[j].types].label
  ELSE "Other"

Crime_Category(type) == CaseWhen(CategoryClauses, type)

\* a statement of STEP-1 fails: Rscript stops there, an interactive session goes on
RFails(stmt) ==
  /\ renv' = [renv EXCEPT !.errors = @ \cup {stmt}]
  /\ pcR' = IF rmode = "Rscript" THEN "halted" ELSE After(Step1Statements, stmt)
  /\ UNCHANGED disk

\* a statement of STEP-1 succeeds and leaves the environment env
RDoes(stmt, env) ==
  /\ renv' = env
  /\ pcR' = After(Step1Statements, stmt)

RFrame ==
  /\ running' = IF Ended(pcR') THEN "none" ELSE running
  /\ UNCHANGED <<input, rmode, pc05, nb05, pc10, nb10>>

RAt(stmt) == running = "STEP1" /\ pcR = stmt

Has(name) == name \in renv.defined

RunStep1 ==
  /\ running = "none" /\ pcR = "idle"
  /\ running' = "STEP1"
  /\ pcR' = Step1Statements[1]
  /\ UNCHANGED <<input, disk, rmode, renv, pc05, nb05, pc10, nb10>>

\* lines 3-7
Library ==
  /\ RAt("library")
  /\ RDoes("library", [renv EXCEPT !.libs = AttachedPackages])
  /\ UNCHANGED disk
  /\ RFrame

\* line 10
ReadCsv ==
  /\ RAt("read_csv")
  /\ IF Callable("read_csv") /\ Exists("Crimes_-_2001_to_Present_20240909.csv")
     THEN /\ RDoes("read_csv", [renv EXCEPT !.crime_data = input.crimeCsv,
                                             !.defined = @ \cup {"crime_data"}])
          /\ UNCHANGED disk
     ELSE RFails("read_csv")
  /\ RFrame

\* line 12
StRead ==
  /\ RAt("st_read")
  /\ IF Callable("st_read") /\ Exists("geo_export_0e4cec96-27db-4986-aa31-6ef467c22c26.shp")
     THEN /\ RDoes("st_read", [renv EXCEPT !.defined = @ \cup {"beat_map_post_2012"}])
          /\ UNCHANGED disk
     ELSE RFails("st_read")
  /\ RFrame

\* line 15
UniquePost2012 ==
  /\ RAt("unique_post_2012")
  /\ IF Has("beat_map_post_2012")
     THEN /\ RDoes("unique_post_2012", [renv EXCEPT !.defined = @ \cup {"unique_post_2012"}])
          /\ UNCHANGED disk
     ELSE RFails("unique_post_2012")
  /\ RFrame

\* line 16
PrintUniquePre2012 ==
  /\ RAt("print_unique_pre_2012")
  /\ IF Has("unique_pre_2012")
     THEN RDoes("print_unique_pre_2012", renv) /\ UNCHANGED disk
     ELSE RFails("print_unique_pre_2012")
  /\ RFrame

\* line 19
AsNumericDistrict ==
  /\ RAt("as_numeric")
  /\ IF Has("crime_data")
     THEN /\ RDoes("as_numeric",
                   [renv EXCEPT !.crime_data =
                      {[r EXCEPT !.District = AsNumeric(r.District)] : r \in renv.crime_data}])
          /\ UNCHANGED disk
     ELSE RFails("as_numeric")
  /\ RFrame

\* line 22
SprintfDistrict ==
  /\ RAt("sprintf")
  /\ IF Has("crime_data") /\ "as_numeric" \notin renv.errors
     THEN /\ RDoes("sprintf",
                   [renv EXCEPT !.crime_data =
                      {[r EXCEPT !.District = Sprintf03d(r.District)] : r \in renv.crime_data}])
          /\ UNCHANGED disk
     ELSE RFails("sprintf")
  /\ RFrame

\* lines 29-30
MdyHms ==
  /\ RAt("mdy_hms")
  /\ IF Has("crime_data") /\ Callable("mutate") /\ Callable("mdy_hms")
     THEN /\ RDoes("mdy_hms",
                   [renv EXCEPT !.crime_data =
                      {[r EXCEPT !.Date = Mdy_hms(r.Date)] : r \in renv.crime_data}])
          /\ UNCHANGED disk
     ELSE RFails("mdy_hms")
  /\ RFrame

\* lines 33-34
FilterDate ==
  /\ RAt("filter_date")
  /\ IF Has("crime_data") /\ Callable("filter")
     THEN /\ RDoes("filter_date",
                   [renv EXCEPT !.crime_data_filtered =
                                   {r \in renv.crime_data : InDateRange(r.Date)},
                                !.defined = @ \cup {"crime_data_filtered"}])
          /\ UNCHANGED disk
     ELSE RFails("filter_date")
  /\ RFrame

SelectRow(r) ==
  [ID |-> r.ID, Date |-> r.Date, Beat |-> r.Beat, District |-> r.District,
   PrimaryType |-> r.PrimaryType]

\* lines 37-38
Select ==
  /\ RAt("select")
  /\ IF Has("crime_data_filtered") /\ Callable("select")
     THEN /\ RDoes("select",
                   [renv EXCEPT !.crime_clean =
                                   {SelectRow(r) : r \in renv.crime_data_filtered},
                                !.defined = @ \cup {"crime_clean"}])
          /\ UNCHANGED disk
     ELSE RFails("select")
  /\ RFrame

\* lines 47-48
FilterDistrict ==
  /\ RAt("filter_district")
  /\ IF Has("crime_clean") /\ Callable("filter")
     THEN /\ RDoes("filter_district",
                   [renv EXCEPT !.crime_units =
                                   {r \in renv.crime_clean : r.District \in districts},
                                !.defined = @ \cup {"crime_units"}])
          /\ UNCHANGED disk
     ELSE RFails("filter_district")
  /\ RFrame

\* lines 54-55
Recode ==
  /\ RAt("recode")
  /\ IF Has("crime_units") /\ Callable("recode")
     THEN /\ RDoes("recode",
                   [renv EXCEPT !.crime_units =
                      {[r EXCEPT !.District = district_mapping(r.District)] :
                         r \in renv.crime_units}])
          /\ UNCHANGED disk
     ELSE RFails("recode")
  /\ RFrame

\* C12 variant: no Crime_Category column is added
WithCategory_Unchanged(r) == r

WithCategory(r) ==
  [ID |-> r.ID, Date |-> r.Date, Beat |-> r.Beat, District |-> r.District,
   PrimaryType |-> r.PrimaryType, Crime_Category |-> Crime_Category(r.PrimaryType)]

\* lines 61-79
CaseWhenCategory ==
  /\ RAt("case_when")
  /\ IF Has("crime_units") /\ Callable("case_when")
     THEN /\ RDoes("case_when",
                   [renv EXCEPT !.crime_units = {WithCategory(r) : r \in renv.crime_units},
                                !.defined = @ \cup {"Crime_Category"}])
          /\ UNCHANGED disk
     ELSE RFails("case_when")
  /\ RFrame

\* lines 86-87
WriteParquet ==
  /\ RAt("write_parquet")
  /\ IF Has("crime_units") /\ Callable("write_parquet")
     THEN /\ RDoes("write_parquet", renv)
          /\ disk' = [disk EXCEPT !.names = @ \cup {"crimeunits2409.parquet"},
                                  !.crimeunits = renv.crime_units]
     ELSE RFails("write_parquet")
  /\ RFrame

Step1 ==
  \/ RunStep1 \/ Library \/ ReadCsv \/ StRead \/ UniquePost2012 \/ PrintUniquePre2012
  \/ AsNumericDistrict \/ SprintfDistrict \/ MdyHms \/ FilterDate \/ Select
  \/ FilterDistrict \/ Recode \/ CaseWhenCategory \/ WriteParquet

(***************************************************************************)
(* Geometry: a polygon is a set of cells of the plane, in a coordinate     *)
(* reference system.  Every cell has area 1 in the projected system        *)
(* EPSG:26971; in degrees (EPSG:4326) the cells are distorted.             *)
(***************************************************************************)
CellArea(crs, cell) == IF crs = "EPSG:26971" THEN 1 ELSE cell

RECURSIVE AreaOfCells(_, _)
AreaOfCells(crs, cells) ==
  IF cells = {} THEN 0
  ELSE LET c == CHOOSE c \in cells : TRUE
       IN CellArea(crs, c) + AreaOfCells(crs, cells \ {c})

\* GeoSeries.area
Area(geometry) == AreaOfCells(geometry.crs, geometry.cells)

\* GeoDataFrame.to_crs(epsg=26971)
ToCrs(frame) ==
  {[r EXCEPT !.geometry = [crs |-> "EPSG:26971", cells |-> r.geometry.cells]] : r \in frame}

\* gpd.overlay(tracts, districts, how='intersection'): one row for each pair
\* of polygons that share area, with the columns of both
Overlay(tractFrame, districtFrame) ==
  {[idx |-> <<t.fid, d.fid>>, tract |-> t.tract, dist_label |-> d.dist_label,
    dist_num |-> d.dist_num,
    geometry |-> [crs |-> t.geometry.crs, cells |-> t.geometry.cells \cap d.geometry.cells]] :
     <<t, d>> \in {p \in tractFrame \X districtFrame :
                     /\ p[1].geometry.crs = p[2].geometry.crs
                     /\ p[1].geometry.cells \cap p[2].geometry.cells # {}}}

\* C2 variant: the total taken over the whole table, not over each tract
Proportions_WholeTable(overlaid) ==
  LET withArea == {[idx |-> r.idx, tract |-> r.tract, dist_num |-> r.dist_num,
                    intersection_area |-> Whole(Area(r.geometry))] : r \in overlaid}
  IN {[idx |-> r.idx, tract |-> r.tract, dist_num |-> r.dist_num,
       proportion |-> FDiv(r.intersection_area, SumSkipNa(withArea, "intersection_area"))] :
        r \in withArea}

\* intersection_area, total_tract_area = groupby(tract).transform('sum'),
\* proportion = intersection_area / total_tract_area, and the three columns kept
Proportions(overlaid) ==
  LET withArea == {[idx |-> r.idx, tract |-> r.tract, dist_num |-> r.dist_num,
                    intersection_area |-> Whole(Area(r.geometry))] : r \in overlaid}
      total_tract_area(r) == SumSkipNa({q \in withArea : q.tract = r.tract}, "intersection_area")
  IN {[idx |-> r.idx, tract |-> r.tract, dist_num |-> r.dist_num,
       proportion |-> FDiv(r.intersection_area, total_tract_area(r))] : r \in withArea}

\* a str compared with an int: never equal
StrEqInt(text, n) == FALSE

\* x / y * 100
Percent(x, y) == FMul(FDiv(x, y), Whole(100))

(***************************************************************************)
(* A notebook: the cells run top to bottom; an exception stops the run.    *)
(* stages records the stages of the pipeline in the order they were run.   *)
(***************************************************************************)
Staged(stages, stage) ==
  IF stages # <<>> /\ stages[Len(stages)] = stage THEN stages ELSE Append(stages, stage)

(***************************************************************************)
(* STEP-2-ACS_CRIME_2005-2009.ipynb                                        *)
(***************************************************************************)
Cells05 ==
  <<"read_acs", "filter_chicago", "fillna_acs", "census_tract_id", "read_shapefiles",
    "drop_31st", "to_crs", "overlay", "proportion", "merge_tracts", "aggregate",
    "read_parquet", "to_datetime", "filter_years", "lstrip", "groupby",
    "merge_population", "rates", "total_crime_rate", "to_parquet_crime",
    "to_parquet_acs">>

\* the stage of the pipeline each cell belongs to
StageOf05(cell) ==
  CASE cell \in {"read_acs", "filter_chicago", "fillna_acs", "census_tract_id"} -> "load survey data"
    [] cell \in {"read_shapefiles", "drop_31st"} -> "load shapefiles"
    [] cell = "to_crs" -> "reproject"
    [] cell = "overlay" -> "spatial overlay"
    [] cell = "proportion" -> "proportion computation"
    [] cell = "merge_tracts" -> "merge by tract"
    [] cell = "aggregate" -> "aggregate by district"
    [] cell \in {"read_parquet", "to_datetime"} -> "load crime records"
    [] cell \in {"filter_years", "lstrip", "groupby"} -> "filter"
    [] cell = "merge_population" -> "merge with population"
    [] cell \in {"rates", "total_crime_rate"} -> "compute rates"
    [] cell \in {"to_parquet_crime", "to_parquet_acs"} -> "persist"

EstimateColumns05 ==
  {"RK9E001", "RLIE001", "RLIE003", "RLIE004", "RLIE006", "RLIE012",
   "RNBE001", "RNBE002", "RNBE003"}

crime_types ==
  <<"Violent Crime", "Property Crime", "Drug-Related Crime",
    "Administrative or Non-Criminal", "Public Order Crime", "Other">>

CrimeTypeSet == {crime_types[i] : i \in 1..Len(crime_types)}

\* the cell raises: the run stops
Raises05(cell, exception) ==
  /\ nb05' = [nb05 EXCEPT !.error = exception]
  /\ pc05' = "halted"
  /\ UNCHANGED disk

\* the cell completes and leaves the notebook's variables as env
Runs05(cell, env) ==
  /\ nb05' = [env EXCEPT !.stages = Staged(nb05.stages, StageOf05(cell))]
  /\ pc05' = After(Cells05, cell)

Frame05 ==
  /\ running' = IF Ended(pc05') THEN "none" ELSE running
  /\ UNCHANGED <<input, rmode, pcR, renv, pc10, nb10>>

At05(cell) == running = "NB2005" /\ pc05 = cell

RunNotebook05 ==
  /\ running = "none" /\ pc05 = "idle"
  /\ running' = "NB2005"
  /\ pc05' = Cells05[1]
  /\ UNCHANGED <<input, disk, rmode, pcR, renv, nb05, pc10, nb10>>

\* line 95
ReadAcs05 ==
  /\ At05("read_acs")
  /\ IF Exists("nhgis0006_ds195_20095_tract_E.csv")
     THEN Runs05("read_acs", [nb05 EXCEPT !.acs2005_2009 = input.acsCsv]) /\ UNCHANGED disk
     ELSE Raises05("read_acs", "FileNotFoundError")
  /\ Frame05

\* line 106
FilterChicago05 ==
  /\ At05("filter_chicago")
  /\ Runs05("filter_chicago",
            [nb05 EXCEPT !.acs2005_2009_chicago =
               {r \in nb05.acs2005_2009 : r.STATEA = 17 /\ r.COUNTYA = 31}])
  /\ UNCHANGED disk
  /\ Frame05

\* DataFrame.fillna(0) on the columns cols of a frame
FillNaFrame(frame, cols) ==
  {[c \in DOMAIN r |-> IF c \in cols THEN FillNa0(r[c]) ELSE r[c]] : r \in frame}

\* line 170
FillNaAcs05 ==
  /\ At05("fillna_acs")
  /\ Runs05("fillna_acs",
            [nb05 EXCEPT !.acs2005_2009_chicago = FillNaFrame(@, EstimateColumns05)])
  /\ UNCHANGED disk
  /\ Frame05

\* lines 189-191
census_tract_id(r) ==
  ZFill(Digits(r.STATEA), 2) \o ZFill(Digits(r.COUNTYA), 3) \o ZFill(Digits(r.TRACTA), 6)

WithTractId(r) ==
  [c \in DOMAIN r \cup {"census_tract_id"} |->
     IF c = "census_tract_id" THEN census_tract_id(r) ELSE r[c]]

CensusTractId05 ==
  /\ At05("census_tract_id")
  /\ Runs05("census_tract_id",
            [nb05 EXCEPT !.acs2005_2009_chicago = {WithTractId(r) : r \in @}])
  /\ UNCHANGED disk
  /\ Frame05

\* lines 215-216
ReadShapefiles05 ==
  /\ At05("read_shapefiles")
  /\ IF Exists("Census_Tracts.shp") /\ Exists("geo_export_04c70f5d-35cd-4d51-82f4-222f5c605f9a.shp")
     THEN /\ Runs05("read_shapefiles",
                    [nb05 EXCEPT !.tracts = input.tracts2000, !.districts = input.districtsShp])
          /\ UNCHANGED disk
     ELSE Raises05("read_shapefiles", "DataSourceError")
  /\ Frame05

\* C20 variant: nothing is removed
Drop31st_Nothing(frame) == frame

\* line 265
Drop31st(frame) == {d \in frame : d.dist_label # "31ST"}

Drop31st05 ==
  /\ At05("drop_31st")
  /\ Runs05("drop_31st", [nb05 EXCEPT !.districts = Drop31st(@)])
  /\ UNCHANGED disk
  /\ Frame05

\* lines 278-279
ToCrs05 ==
  /\ At05("to_crs")
  /\ Runs05("to_crs", [nb05 EXCEPT !.tracts = ToCrs(@), !.districts = ToCrs(@)])
  /\ UNCHANGED disk
  /\ Frame05

\* line 303
Overlay05 ==
  /\ At05("overlay")
  /\ Runs05("overlay",
            [nb05 EXCEPT !.tracts_to_districts = Overlay(nb05.tracts, nb05.districts)])
  /\ UNCHANGED disk
  /\ Frame05

\* lines 306-318
Proportion05 ==
  /\ At05("proportion")
  /\ Runs05("proportion",
            [nb05 EXCEPT !.tracts_to_districts =
               {r \in Proportions(@) : ~StrEqInt(r.dist_num, 31)}])
  /\ UNCHANGED disk
  /\ Frame05

\* lines 382-424: one row of filtered_df from a row of the areal-weight table
\* and the row of the survey table with the same tract identifier
filtered_df_row(w, a) ==
  [idx |-> w.idx, tract |-> w.tract, dist_num |-> w.dist_num,
   proportion |-> FillNa0(w.proportion),
   Total_Population |-> FillNa0(a.RK9E001),
   RLIE001 |-> FillNa0(a.RLIE001),
   Total_Population_Poverty_Status |-> FillNa0(a.RNBE001),
   Percent_Hispanic |-> FillNa0(Percent(a.RLIE012, a.RK9E001)),
   Percent_NonHispanic_White |-> FillNa0(Percent(a.RLIE003, a.RK9E001)),
   Percent_NonHispanic_Black |-> FillNa0(Percent(a.RLIE004, a.RK9E001)),
   Percent_NonHispanic_Asian |-> FillNa0(Percent(a.RLIE006, a.RK9E001)),
   Poverty_Percent |-> FillNa0(Percent(FAdd(a.RNBE002, a.RNBE003), a.RNBE001))]

\* C11 variant: a left merge, which keeps the tracts the survey table lacks
MergeTracts05_Left ==
  /\ At05("merge_tracts")
  /\ Runs05("merge_tracts",
            [nb05 EXCEPT !.filtered_df =
               {filtered_df_row(p[1], p[2]) :
                  p \in {q \in nb05.tracts_to_districts \X nb05.acs2005_2009_chicago :
                           q[1].tract = q[2].census_tract_id}}
               \cup {[idx |-> w.idx, tract |-> w.tract, dist_num |-> w.dist_num,
                      proportion |-> FillNa0(w.proportion), Total_Population |-> Whole(0),
                      RLIE001 |-> Whole(0), Total_Population_Poverty_Status |-> Whole(0),
                      Percent_Hispanic |-> Whole(0), Percent_NonHispanic_White |-> Whole(0),
                      Percent_NonHispanic_Black |-> Whole(0),
                      Percent_NonHispanic_Asian |-> Whole(0), Poverty_Percent |-> Whole(0)] :
                     w \in {v \in nb05.tracts_to_districts :
                              \A a \in nb05.acs2005_2009_chicago : a.census_tract_id # v.tract}}])
  /\ UNCHANGED disk
  /\ Frame05

MergeTracts05 ==
  /\ At05("merge_tracts")
  /\ Runs05("merge_tracts",
            [nb05 EXCEPT !.filtered_df =
               {filtered_df_row(p[1], p[2]) :
                  p \in {q \in nb05.tracts_to_districts \X nb05.acs2005_2009_chicago :
                           q[1].tract = q[2].census_tract_id}}])
  /\ UNCHANGED disk
  /\ Frame05

\* lines 459-469
district_aggregated2005_row(frame, dist) ==
  LET g == {r \in frame : r.dist_num = dist}
  IN [dist_num |-> dist,
      Total_Population |-> SumSkipNa(g, "Total_Population"),
      Poverty_Percent |-> MeanSkipNa(g, "Poverty_Percent"),
      Percent_NonHispanic_White |-> MeanSkipNa(g, "Percent_NonHispanic_White"),
      Percent_NonHispanic_Black |-> MeanSkipNa(g, "Percent_NonHispanic_Black"),
      Percent_NonHispanic_Asian |-> MeanSkipNa(g, "Percent_NonHispanic_Asian"),
      Percent_Hispanic |-> MeanSkipNa(g, "Percent_Hispanic")]

\* C15 variant: no grouping, one survey row for each tract of a district
Aggregate05_PerTract ==
  /\ At05("aggregate")
  /\ Runs05("aggregate",
            [nb05 EXCEPT !.district_aggregated2005 =
               {district_aggregated2005_row({r}, r.dist_num) : r \in nb05.filtered_df}])
  /\ UNCHANGED disk
  /\ Frame05

Aggregate05 ==
  /\ At05("aggregate")
  /\ Runs05("aggregate",
            [nb05 EXCEPT !.district_aggregated2005 =
               {district_aggregated2005_row(nb05.filtered_df, dist) :
                  dist \in {r.dist_num : r \in nb05.filtered_df}}])
  /\ UNCHANGED disk
  /\ Frame05

(***************************************************************************)
(* The crime cells, shared by the two notebooks                            *)
(***************************************************************************)
NaNint == [na |-> TRUE, v |-> 0]
\* NaN in a column of text
NaNtext == <<"n", "a", "n">>

\* pd.to_datetime(errors='coerce'), then .dt.year and .dt.month:
\* what is no date-time becomes NaT, and its year and month NaN
ToDatetime(frame) ==
  {[ID |-> r.ID, Date |-> IF r.Date.na THEN NAtime ELSE r.Date, Beat |-> r.Beat,
    District |-> r.District, PrimaryType |-> r.PrimaryType,
    Crime_Category |-> r.Crime_Category,
    year |-> IF r.Date.na THEN NaNint ELSE [na |-> FALSE, v |-> r.Date.y],
    month |-> IF r.Date.na THEN NaNint ELSE [na |-> FALSE, v |-> r.Date.mo]] : r \in frame}

\* C17 variant: a filter that leaves out the last year
FilterYears_Exclusive(frame, lo, hi) ==
  {r \in frame : ~r.year.na /\ r.year.v >= lo /\ r.year.v < hi}

\* (year >= lo) & (year <= hi): False for NaN
FilterYears(frame, lo, hi) == {r \in frame : ~r.year.na /\ r.year.v >= lo /\ r.year.v <= hi}

\* groupby(['District','year','month','Crime_Category']).size().unstack(fill_value=0)
\* .reset_index(): one row for each (District, year, month) that has a record, one
\* count column for each category that has a record
CountColumns(frame) == {r.Crime_Category : r \in frame}

\* C14 variant: a count column that tells only whether the category occurs
GroupBySize_Presence(frame) ==
  {[District |-> key[1], year |-> key[2], month |-> key[3],
    counts |-> [c \in CountColumns(frame) |->
                  IF \E r \in frame : /\ r.District = key[1] /\ r.year.v = key[2]
                                      /\ r.month.v = key[3] /\ r.Crime_Category = c
                  THEN 1 ELSE 0]] :
     key \in {<<r.District, r.year.v, r.month.v>> : r \in frame}}

GroupBySize(frame) ==
  {[District |-> key[1], year |-> key[2], month |-> key[3],
    counts |-> [c \in CountColumns(frame) |->
                  Cardinality({r \in frame : /\ r.District = key[1]
                                             /\ r.year.v = key[2]
                                             /\ r.month.v = key[3]
                                             /\ r.Crime_Category = c})]] :
     key \in {<<r.District, r.year.v, r.month.v>> : r \in frame}}

\* the value a left merge puts in a column: that of the matching row, NaN without one
LeftValue(matches, col) ==
  IF matches = {} THEN NaN ELSE (CHOOSE m \in matches : TRUE)[col]

\* the crime types the rate loop gets through before a missing column stops it
RatedTypes(columns) ==
  {crime_types[i] : i \in {j \in 1..Len(crime_types) :
                             \A k \in 1..j : crime_types[k] \in columns}}

\* (count / Total_Population) * 1000
Rate(count, population) == FMul(FDiv(Whole(count), population), Whole(1000))

WithRates(r, columns) ==
  [c \in DOMAIN r \cup {"rates"} |->
     IF c = "rates" THEN [t \in RatedTypes(columns) |-> Rate(r.counts[t], r.Total_Population)]
     ELSE r[c]]

RECURSIVE SumRow(_, _)
\* DataFrame[cols].sum(axis=1) of one row: NaN is skipped
SumRow(rates, cols) ==
  IF cols = {} THEN Whole(0)
  ELSE LET c == CHOOSE c \in cols : TRUE
       IN IF IsNaN(rates[c]) THEN SumRow(rates, cols \ {c})
          ELSE FAdd(rates[c], SumRow(rates, cols \ {c}))

WithTotalRate(r) ==
  [c \in DOMAIN r \cup {"total_crime_rate"} |->
     IF c = "total_crime_rate" THEN SumRow(r.rates, CrimeTypeSet) ELSE r[c]]

(***************************************************************************)
(* STEP-2-ACS_CRIME_2005-2009.ipynb, the crime cells                       *)
(***************************************************************************)
\* line 491
ReadParquet05 ==
  /\ At05("read_parquet")
  /\ IF "crimeunits2409.parquet" \in disk.names
     THEN Runs05("read_parquet", [nb05 EXCEPT !.crime_data = disk.crimeunits]) /\ UNCHANGED disk
     ELSE Raises05("read_parquet", "FileNotFoundError")
  /\ Frame05

\* lines 512-515
ToDatetime05 ==
  /\ At05("to_datetime")
  /\ Runs05("to_datetime", [nb05 EXCEPT !.crime_data = ToDatetime(@)])
  /\ UNCHANGED disk
  /\ Frame05

\* line 537
FilterYears05 ==
  /\ At05("filter_years")
  /\ Runs05("filter_years",
            [nb05 EXCEPT !.crime_filtered2005 = FilterYears(nb05.crime_data, 2005, 2009)])
  /\ UNCHANGED disk
  /\ Frame05

\* line 587
LStrip05 ==
  /\ At05("lstrip")
  /\ Runs05("lstrip",
            [nb05 EXCEPT !.crime_filtered2005 =
               {[r EXCEPT !.District = LStrip0(r.District)] : r \in @}])
  /\ UNCHANGED disk
  /\ Frame05

\* line 610
GroupBy05 ==
  /\ At05("groupby")
  /\ Runs05("groupby",
            [nb05 EXCEPT !.crime_aggregated_monthly2005 = GroupBySize(nb05.crime_filtered2005),
                         !.columns = CountColumns(nb05.crime_filtered2005)])
  /\ UNCHANGED disk
  /\ Frame05

\* lines 612-620: left merge on District = dist_num, dist_num dropped
MergePopulationRow05(r, matches) ==
  [District |-> r.District, year |-> r.year, month |-> r.month, counts |-> r.counts,
   Total_Population |-> LeftValue(matches, "Total_Population")]

\* the rows a left merge makes of one crime row: one for each survey row of its
\* district, one with NaN when there is none
MergePopulationRows05(r, survey) ==
  LET matches == {d \in survey : d.dist_num = r.District}
  IN IF matches = {} THEN {MergePopulationRow05(r, {})}
     ELSE {MergePopulationRow05(r, {d}) : d \in matches}

MergePopulation05 ==
  /\ At05("merge_population")
  /\ Runs05("merge_population",
            [nb05 EXCEPT !.crime_aggregated_monthly2005 =
               UNION {MergePopulationRows05(r, nb05.district_aggregated2005) : r \in @}])
  /\ UNCHANGED disk
  /\ Frame05

\* lines 665-668: a crime type without a count column raises KeyError
Rates05 ==
  /\ At05("rates")
  /\ IF CrimeTypeSet \subseteq nb05.columns
     THEN /\ Runs05("rates",
                    [nb05 EXCEPT !.crime_aggregated_monthly2005 =
                       {WithRates(r, nb05.columns) : r \in @}])
          /\ UNCHANGED disk
     ELSE /\ nb05' = [nb05 EXCEPT !.crime_aggregated_monthly2005 =
                                     {WithRates(r, nb05.columns) : r \in @},
                                  !.error = "KeyError"]
          /\ pc05' = "halted"
          /\ UNCHANGED disk
  /\ Frame05

\* lines 734-737
TotalCrimeRate05 ==
  /\ At05("total_crime_rate")
  /\ Runs05("total_crime_rate",
            [nb05 EXCEPT !.crime_aggregated_monthly2005 = {WithTotalRate(r) : r \in @}])
  /\ UNCHANGED disk
  /\ Frame05

\* line 960
ToParquetCrime05 ==
  /\ At05("to_parquet_crime")
  /\ Runs05("to_parquet_crime", nb05)
  /\ disk' = [disk EXCEPT !.names = @ \cup {"crime_2005-2009.parquet"},
                          !.crime_2005_2009 = nb05.crime_aggregated_monthly2005]
  /\ Frame05

\* line 970
ToParquetAcs05 ==
  /\ At05("to_parquet_acs")
  /\ Runs05("to_parquet_acs", nb05)
  /\ disk' = [disk EXCEPT !.names = @ \cup {"acs_2005-2009.parquet"},
                          !.acs_2005_2009 = nb05.district_aggregated2005]
  /\ Frame05

Notebook05 ==
  \/ RunNotebook05 \/ ReadAcs05 \/ FilterChicago05 \/ FillNaAcs05 \/ CensusTractId05
  \/ ReadShapefiles05 \/ Drop31st05 \/ ToCrs05 \/ Overlay05 \/ Proportion05
  \/ MergeTracts05 \/ Aggregate05 \/ ReadParquet05 \/ ToDatetime05 \/ FilterYears05
  \/ LStrip05 \/ GroupBy05 \/ MergePopulation05 \/ Rates05 \/ TotalCrimeRate05
  \/ ToParquetCrime05 \/ ToParquetAcs05

(***************************************************************************)
(* The 2010-2020 notebook (Preprocessing Crime Data with ACS Data          *)
(* 2010-2020)                                                              *)
(***************************************************************************)
\* C10 variant: the overlay cell run before the reprojection
Cells10_OverlayFirst ==
  <<"read_shapefiles", "overlay", "to_crs", "proportion", "get_acs", "merge_tracts",
    "aggregate", "percentages", "read_parquet", "to_datetime", "filter_years",
    "groupby", "lstrip", "merge_population", "rates", "total_crime_rate", "to_parquet">>

Cells10 ==
  <<"read_shapefiles", "to_crs", "overlay", "proportion", "get_acs", "merge_tracts",
    "aggregate", "percentages", "read_parquet", "to_datetime", "filter_years",
    "groupby", "lstrip", "merge_population", "rates", "total_crime_rate", "to_parquet">>

\* the stage of the pipeline each cell belongs to
StageOf10(cell) ==
  CASE cell = "read_shapefiles" -> "load shapefiles"
    [] cell = "to_crs" -> "reproject"
    [] cell = "overlay" -> "spatial overlay"
    [] cell = "proportion" -> "proportion computation"
    [] cell = "get_acs" -> "load survey data"
    [] cell = "merge_tracts" -> "merge by tract"
    [] cell \in {"aggregate", "percentages"} -> "aggregate by district"
    [] cell \in {"read_parquet", "to_datetime"} -> "load crime records"
    [] cell \in {"filter_years", "groupby", "lstrip"} -> "filter"
    [] cell = "merge_population" -> "merge with population"
    [] cell \in {"rates", "total_crime_rate"} -> "compute rates"
    [] cell = "to_parquet" -> "persist"

acs_variables ==
  {"B01003_001E", "B03002_003E", "B03002_004E", "B03002_006E", "B03002_012E",
   "C17002_001E", "C17002_002E", "C17002_003E"}

\* range(2010, 2021)
AcsYears == 2010..2020

Raises10(cell, exception) ==
  /\ nb10' = [nb10 EXCEPT !.error = exception]
  /\ pc10' = "halted"
  /\ UNCHANGED disk

Runs10(cell, env) ==
  /\ nb10' = [env EXCEPT !.stages = Staged(nb10.stages, StageOf10(cell))]
  /\ pc10' = After(Cells10, cell)

Frame10 ==
  /\ running' = IF Ended(pc10') THEN "none" ELSE running
  /\ UNCHANGED <<input, rmode, pcR, renv, pc05, nb05>>

At10(cell) == running = "NB2010" /\ pc10 = cell

RunNotebook10 ==
  /\ running = "none" /\ pc10 = "idle"
  /\ running' = "NB2010"
  /\ pc10' = Cells10[1]
  /\ UNCHANGED <<input, disk, rmode, pcR, renv, pc05, nb05, nb10>>

\* lines 96-101
ReadShapefiles10 ==
  /\ At10("read_shapefiles")
  /\ IF /\ Exists("geo_export_4ebc9dd7-55e4-4c2e-9928-4ee080c61016.shp")
        /\ Exists("geo_export_04c70f5d-35cd-4d51-82f4-222f5c605f9a.shp")
     THEN /\ Runs10("read_shapefiles",
                    [nb10 EXCEPT !.chicago_census = input.tracts2010,
                                 !.cpd_districts = Drop31st(input.districtsShp)])
          /\ UNCHANGED disk
     ELSE Raises10("read_shapefiles", "DataSourceError")
  /\ Frame10

\* lines 112-113
ToCrs10 ==
  /\ At10("to_crs")
  /\ Runs10("to_crs", [nb10 EXCEPT !.chicago_census = ToCrs(@), !.cpd_districts = ToCrs(@)])
  /\ UNCHANGED disk
  /\ Frame10

\* line 132
Overlay10 ==
  /\ At10("overlay")
  /\ Runs10("overlay",
            [nb10 EXCEPT !.tracts_to_districts =
               Overlay(nb10.chicago_census, nb10.cpd_districts)])
  /\ UNCHANGED disk
  /\ Frame10

\* lines 135-144
Proportion10 ==
  /\ At10("proportion")
  /\ Runs10("proportion", [nb10 EXCEPT !.tracts_to_districts = Proportions(@)])
  /\ UNCHANGED disk
  /\ Frame10

\* lines 178-181
GEOID(r) == r.state \o r.county \o r.tract

WithGEOID(r) == [c \in DOMAIN r \cup {"GEOID"} |-> IF c = "GEOID" THEN GEOID(r) ELSE r[c]]

\* lines 155-184: the API answers for every year, or the call raises
GetAcs10 ==
  /\ At10("get_acs")
  /\ IF Exists("api.census.gov")
     THEN /\ Runs10("get_acs",
                    [nb10 EXCEPT !.acs_data_post_2009 =
                       FillNaFrame({WithGEOID(r) : r \in {q \in input.acsApi :
                                                            q.year \in AcsYears}},
                                   acs_variables)])
          /\ UNCHANGED disk
     ELSE Raises10("get_acs", "CensusException")
  /\ Frame10

\* lines 209-223: one row of acs_mapped_post_2009, the proportion applied to
\* each variable and NaN filled with 0
acs_mapped_post_2009_row(a, w) ==
  [c \in DOMAIN a \cup {"idx", "dist_num", "proportion"} |->
     IF c = "idx" THEN w.idx
     ELSE IF c = "dist_num" THEN w.dist_num
     ELSE IF c = "proportion" THEN FillNa0(w.proportion)
     ELSE IF c \in acs_variables THEN FillNa0(FMul(a[c], w.proportion))
     ELSE a[c]]

MergeTracts10 ==
  /\ At10("merge_tracts")
  /\ Runs10("merge_tracts",
            [nb10 EXCEPT !.acs_mapped_post_2009 =
               {acs_mapped_post_2009_row(p[1], p[2]) :
                  p \in {q \in nb10.acs_data_post_2009 \X nb10.tracts_to_districts :
                           q[1].GEOID = q[2].tract}}])
  /\ UNCHANGED disk
  /\ Frame10

\* lines 235-244
district_sums_row(frame, dist, year) ==
  LET g == {r \in frame : r.dist_num = dist /\ r.year = year}
  IN [c \in acs_variables \cup {"dist_num", "year"} |->
        IF c = "dist_num" THEN dist
        ELSE IF c = "year" THEN year
        ELSE SumSkipNa(g, c)]

Aggregate10 ==
  /\ At10("aggregate")
  /\ Runs10("aggregate",
            [nb10 EXCEPT !.district_aggregated_post_2009 =
               {district_sums_row(nb10.acs_mapped_post_2009, key[1], key[2]) :
                  key \in {<<r.dist_num, r.year>> : r \in nb10.acs_mapped_post_2009}}])
  /\ UNCHANGED disk
  /\ Frame10

\* lines 281-300
district_aggregated_post_2009_row(r) ==
  [dist_num |-> r.dist_num, year |-> r.year,
   Total_Population |-> r.B01003_001E,
   Total_Population_Poverty_Status |-> r.C17002_001E,
   Percent_Hispanic |-> Percent(r.B03002_012E, r.B01003_001E),
   Percent_NonHispanic_White |-> Percent(r.B03002_003E, r.B01003_001E),
   Percent_NonHispanic_Black |-> Percent(r.B03002_004E, r.B01003_001E),
   Percent_NonHispanic_Asian |-> Percent(r.B03002_006E, r.B01003_001E),
   Poverty_Percent |-> Percent(FAdd(r.C17002_002E, r.C17002_003E), r.C17002_001E)]

Percentages10 ==
  /\ At10("percentages")
  /\ Runs10("percentages",
            [nb10 EXCEPT !.district_aggregated_post_2009 =
               {district_aggregated_post_2009_row(r) : r \in @}])
  /\ UNCHANGED disk
  /\ Frame10

\* line 321
ReadParquet10 ==
  /\ At10("read_parquet")
  /\ IF "crimeunits2409.parquet" \in disk.names
     THEN Runs10("read_parquet", [nb10 EXCEPT !.crime_data = disk.crimeunits]) /\ UNCHANGED disk
     ELSE Raises10("read_parquet", "FileNotFoundError")
  /\ Frame10

\* lines 343-346
ToDatetime10 ==
  /\ At10("to_datetime")
  /\ Runs10("to_datetime", [nb10 EXCEPT !.crime_data = ToDatetime(@)])
  /\ UNCHANGED disk
  /\ Frame10

\* line 368
FilterYears10 ==
  /\ At10("filter_years")
  /\ Runs10("filter_years",
            [nb10 EXCEPT !.crime_filtered_2010_2020 = FilterYears(nb10.crime_data, 2010, 2020)])
  /\ UNCHANGED disk
  /\ Frame10

\* line 391
GroupBy10 ==
  /\ At10("groupby")
  /\ Runs10("groupby",
            [nb10 EXCEPT !.crime_aggregated_2010_2020 = GroupBySize(nb10.crime_filtered_2010_2020),
                         !.columns = CountColumns(nb10.crime_filtered_2010_2020)])
  /\ UNCHANGED disk
  /\ Frame10

\* line 414
LStrip10 ==
  /\ At10("lstrip")
  /\ Runs10("lstrip",
            [nb10 EXCEPT !.crime_aggregated_2010_2020 =
               {[r EXCEPT !.District = LStrip0(r.District)] : r \in @}])
  /\ UNCHANGED disk
  /\ Frame10

\* lines 437-442: left merge on (District, year) = (dist_num, year), dist_num kept
MergePopulationRow10(r, matches) ==
  [District |-> r.District, year |-> r.year, month |-> r.month, counts |-> r.counts,
   dist_num |-> IF matches = {} THEN NaNtext ELSE r.District,
   Total_Population |-> LeftValue(matches, "Total_Population")]

\* the rows a left merge makes of one crime row: one for each survey row of its
\* district and year, one with NaN when there is none
MergePopulationRows10(r, survey) ==
  LET matches == {d \in survey : d.dist_num = r.District /\ d.year = r.year}
  IN IF matches = {} THEN {MergePopulationRow10(r, {})}
     ELSE {MergePopulationRow10(r, {d}) : d \in matches}

MergePopulation10 ==
  /\ At10("merge_population")
  /\ Runs10("merge_population",
            [nb10 EXCEPT !.crime_aggregated_2010_2020 =
               UNION {MergePopulationRows10(r, nb10.district_aggregated_post_2009) : r \in @}])
  /\ UNCHANGED disk
  /\ Frame10

\* lines 641-644: a crime type without a count column raises KeyError
Rates10 ==
  /\ At10("rates")
  /\ IF CrimeTypeSet \subseteq nb10.columns
     THEN /\ Runs10("rates",
                    [nb10 EXCEPT !.crime_aggregated_2010_2020 =
                       {WithRates(r, nb10.columns) : r \in @}])
          /\ UNCHANGED disk
     ELSE /\ nb10' = [nb10 EXCEPT !.crime_aggregated_2010_2020 =
                                     {WithRates(r, nb10.columns) : r \in @},
                                  !.error = "KeyError"]
          /\ pc10' = "halted"
          /\ UNCHANGED disk
  /\ Frame10

\* lines 656-660
TotalCrimeRate10 ==
  /\ At10("total_crime_rate")
  /\ Runs10("total_crime_rate",
            [nb10 EXCEPT !.crime_aggregated_2010_2020 = {WithTotalRate(r) : r \in @}])
  /\ UNCHANGED disk
  /\ Frame10

\* lines 721-724
ToParquet10 ==
  /\ At10("to_parquet")
  /\ Runs10("to_parquet", nb10)
  /\ disk' = [disk EXCEPT !.names = @ \cup {"crime_2010-2020.parquet", "acs_2010-2020.parquet"},
                          !.crime_2010_2020 = nb10.crime_aggregated_2010_2020,
                          !.acs_2010_2020 = nb10.district_aggregated_post_2009]
  /\ Frame10

Notebook10 ==
  \/ RunNotebook10 \/ ReadShapefiles10 \/ ToCrs10 \/ Overlay10 \/ Proportion10 \/ GetAcs10
  \/ MergeTracts10 \/ Aggregate10 \/ Percentages10 \/ ReadParquet10 \/ ToDatetime10
  \/ FilterYears10 \/ GroupBy10 \/ LStrip10 \/ MergePopulation10 \/ Rates10
  \/ TotalCrimeRate10 \/ ToParquet10

(***************************************************************************)
(* The input files.  A behaviour starts from one choice of their content;  *)
(* input.missing names the one input that is not there ("none": all are).  *)
(***************************************************************************)
Text2(a, b) == <<a, b>>

\* the police districts file: district 5 on cells 1 and 2, district 12 on cell 3,
\* and the two polygons labelled 31ST on cells 4 and 5
DistrictPolygons ==
  {[fid |-> 1, dist_label |-> "5TH", dist_num |-> <<"5">>,
    geometry |-> [crs |-> "EPSG:4326", cells |-> {1, 2}]],
   [fid |-> 2, dist_label |-> "12TH", dist_num |-> Text2("1", "2"),
    geometry |-> [crs |-> "EPSG:4326", cells |-> {3}]],
   [fid |-> 3, dist_label |-> "31ST", dist_num |-> Text2("3", "1"),
    geometry |-> [crs |-> "EPSG:4326", cells |-> {4}]],
   [fid |-> 4, dist_label |-> "31ST", dist_num |-> Text2("3", "1"),
    geometry |-> [crs |-> "EPSG:4326", cells |-> {5}]]}

\* with and without a polygon for district 12
DistrictFiles == {DistrictPolygons, {d \in DistrictPolygons : d.dist_label # "12TH"}}

TractNumbers == <<10100, 720500>>

TractText(tracta) == <<"1", "7", "0", "3", "1">> \o ZFill(Digits(tracta), 6)

\* a census tracts file: the two tracts on the cells foot[1] and foot[2]
TractFile(foot) ==
  {[fid |-> i, tract |-> TractText(TractNumbers[i]),
    geometry |-> [crs |-> "EPSG:4326", cells |-> foot[i]]] : i \in 1..2}

\* the estimates of one tract: population pop of which sub are Hispanic, and also
\* sub below half the poverty line; a missing estimate is NaN
Estimates(pop, sub) ==
  [total |-> pop, hispanic |-> sub, universe |-> pop, poor |-> sub]

EstimateChoices ==
  {Estimates(Whole(pop), Whole(sub)) : <<pop, sub>> \in
     {q \in (0..MaxPop) \X (0..1) : q[2] <= q[1]}}
  \cup {Estimates(NaN, NaN), Estimates(NaN, Whole(1))}

\* a row of nhgis0006_ds195_20095_tract_E.csv
AcsCsvRow(state, county, tracta, e) ==
  [STATEA |-> state, COUNTYA |-> county, TRACTA |-> tracta,
   RK9E001 |-> e.total, RLIE001 |-> e.total,
   RLIE003 |-> IF IsNaN(e.total) \/ IsNaN(e.hispanic) THEN e.total
               ELSE Whole(e.total.n - e.hispanic.n),
   RLIE004 |-> IF IsNaN(e.total) THEN NaN ELSE Whole(0),
   RLIE006 |-> IF IsNaN(e.total) THEN NaN ELSE Whole(0),
   RLIE012 |-> e.hispanic,
   RNBE001 |-> e.universe, RNBE002 |-> e.poor,
   RNBE003 |-> IF IsNaN(e.poor) THEN NaN ELSE Whole(0)]

\* the survey CSV: the two Chicago tracts and a tract of another county
AcsCsvFile(est) ==
  {AcsCsvRow(17, 31, TractNumbers[i], est[i]) : i \in 1..2}
  \cup {AcsCsvRow(17, 43, TractNumbers[1], Estimates(Whole(1), Whole(1)))}

\* an estimate of the 5-year survey ending in year: it grows by one a year
Grown(x, year) == IF IsNaN(x) THEN x ELSE FAdd(x, Whole(year - 2010))

\* a row the census API returns
AcsApiRow(county, tracta, year, e) ==
  [state |-> Text2("1", "7"), county |-> county, tract |-> ZFill(Digits(tracta), 6),
   year |-> year,
   B01003_001E |-> Grown(e.total, year),
   B03002_003E |-> IF IsNaN(e.total) \/ IsNaN(e.hispanic) THEN Grown(e.total, year)
                   ELSE Whole(e.total.n + (year - 2010) - e.hispanic.n),
   B03002_004E |-> IF IsNaN(e.total) THEN NaN ELSE Whole(0),
   B03002_006E |-> IF IsNaN(e.total) THEN NaN ELSE Whole(0),
   B03002_012E |-> e.hispanic,
   C17002_001E |-> Grown(e.universe, year),
   C17002_002E |-> e.poor,
   C17002_003E |-> IF IsNaN(e.poor) THEN NaN ELSE Whole(0)]

\* what the census API holds: every tract of Illinois, every year
AcsApiData(est) ==
  {AcsApiRow(<<"0", "3", "1">>, TractNumbers[i], y, est[i]) : i \in 1..2, y \in 2009..2021}
  \cup {AcsApiRow(<<"0", "4", "3">>, TractNumbers[1], y, Estimates(Whole(1), Whole(1))) :
          y \in 2009..2021}

\* the crime CSV: copies records for each date, district and primary type given
CrimeCsv(dates, dists, types, copies) ==
  {[ID |-> <<d, r, t, c>>, Date |-> d, Beat |-> r, District |-> r,
    Description |-> "text", PrimaryType |-> t] :
     d \in dates, r \in dists, t \in types, c \in 1..copies}

\* one primary type of each category
SixTypes == {"ASSAULT", "THEFT", "NARCOTICS", "GAMBLING", "OTHER OFFENSE", "RITUALISM"}

AllPrimaryTypes ==
  ViolentTypes \cup PropertyTypes \cup DrugTypes \cup PublicOrderTypes
    \cup AdministrativeTypes \cup {"RITUALISM", "DOMESTIC VIOLENCE", NAtype}

Noon == 12 * 3600
Mid2005 == <<6, 15, 2005, Noon>>
Mid2010 == <<6, 15, 2010, Noon>>
\* texts mdy_hms cannot read: month 13, and no date at all
Malformed == {<<13, 1, 2005, Noon>>, <<>>}

InputFiles ==
  {"Crimes_-_2001_to_Present_20240909.csv", "nhgis0006_ds195_20095_tract_E.csv",
   "Census_Tracts.shp", "geo_export_04c70f5d-35cd-4d51-82f4-222f5c605f9a.shp",
   "geo_export_4ebc9dd7-55e4-4c2e-9928-4ee080c61016.shp", "api.census.gov"}

InputRecord(crime, shp, foot05, est05, foot10, est10, missing) ==
  [crimeCsv |-> crime, districtsShp |-> shp,
   tracts2000 |-> TractFile(foot05), acsCsv |-> AcsCsvFile(est05),
   tracts2010 |-> TractFile(foot10), acsApi |-> AcsApiData(est10),
   missing |-> missing]

\* the inputs of Spec: a few of everything
Inputs ==
  {InputRecord(CrimeCsv({Mid2005, Mid2010} \cup bad, dists, types, copies), shp,
               <<{1, 3}, {2}>>, <<e1, e2>>, <<{2, 3}, {2, 4}>>, <<e2, e1>>, missing) :
     bad \in {{}, Malformed},
     dists \in {{<<"0", "0", "5">>}, {<<"0", "0", "5">>, <<"0", "1", "3">>}},
     types \in {SixTypes, SixTypes \ {"RITUALISM"}},
     copies \in 1..MaxCopies,
     shp \in DistrictFiles,
     e1 \in {Estimates(Whole(0), Whole(0)), Estimates(Whole(MaxPop), Whole(1))},
     e2 \in {Estimates(Whole(0), Whole(0)), Estimates(Whole(1), Whole(0))},
     missing \in InputFiles \cup {"none"}}

EmptyDisk ==
  [names |-> {}, crimeunits |-> {}, crime_2005_2009 |-> {}, acs_2005_2009 |-> {},
   crime_2010_2020 |-> {}, acs_2010_2020 |-> {}]

InitWith(inputs, modes) ==
  /\ input \in inputs
  /\ rmode \in modes
  /\ disk = EmptyDisk
  /\ running = "none"
  /\ pcR = "idle"
  /\ renv = [libs |-> {}, defined |-> {}, errors |-> {}, crime_data |-> {},
             crime_data_filtered |-> {}, crime_clean |-> {}, crime_units |-> {}]
  /\ pc05 = "idle"
  /\ nb05 = [stages |-> <<>>, error |-> "none", acs2005_2009 |-> {},
             acs2005_2009_chicago |-> {}, tracts |-> {}, districts |-> {},
             tracts_to_districts |-> {}, filtered_df |-> {},
             district_aggregated2005 |-> {}, crime_data |-> {},
             crime_filtered2005 |-> {}, crime_aggregated_monthly2005 |-> {},
             columns |-> {}]
  /\ pc10 = "idle"
  /\ nb10 = [stages |-> <<>>, error |-> "none", chicago_census |-> {},
             cpd_districts |-> {}, tracts_to_districts |-> {},
             acs_data_post_2009 |-> {}, acs_mapped_post_2009 |-> {},
             district_aggregated_post_2009 |-> {}, crime_data |-> {},
             crime_filtered_2010_2020 |-> {}, crime_aggregated_2010_2020 |-> {},
             columns |-> {}]

Init == InitWith(Inputs, {"Rscript", "interactive"})

Next == Step1 \/ Notebook05 \/ Notebook10

Spec == Init /\ [][Next]_vars

\* the inputs of SpecSurvey: many maps and survey estimates, one crime CSV
InputsSurvey ==
  {InputRecord(CrimeCsv({Mid2005, Mid2010}, {<<"0", "0", "5">>}, SixTypes, MaxCopies),
               DistrictPolygons, <<f1, f2>>, <<e1, e2>>, <<f1, f2>>, <<e1, e2>>, "none") :
     f1 \in {{1}, {1, 3}, {2, 4}},
     f2 \in {{1, 2, 3}, {3, 5}, {4}},
     e1 \in EstimateChoices,
     e2 \in EstimateChoices}

SpecSurvey == InitWith(InputsSurvey, {"interactive"}) /\ [][Next]_vars

\* the inputs of SpecStep1: crime CSVs of one kind of record, of every primary
\* type, and one CSV that mixes the kinds; one map and one set of estimates
InputsStep1 ==
  {InputRecord(crime, DistrictPolygons, <<{1, 3}, {2}>>,
               <<Estimates(Whole(MaxPop), Whole(1)), Estimates(Whole(1), Whole(0))>>,
               <<{1, 3}, {2}>>,
               <<Estimates(Whole(MaxPop), Whole(1)), Estimates(Whole(1), Whole(0))>>,
               missing) :
     crime \in {CrimeCsv({d}, {r}, {t}, MaxCopies) :
                  d \in {Mid2005, <<12, 31, 2003, Noon>>} \cup Malformed,
                  r \in {<<"0", "0", "5">>, <<"X">>},
                  t \in AllPrimaryTypes}
               \cup {CrimeCsv({Mid2005, Mid2010} \cup Malformed,
                              {<<"0", "0", "5">>, <<"1", "3">>, <<"3", "1">>, <<>>},
                              SixTypes \cup {NAtype}, MaxCopies)},
     missing \in {"none", "Crimes_-_2001_to_Present_20240909.csv"}}

SpecStep1 == InitWith(InputsStep1, {"Rscript", "interactive"}) /\ [][Next]_vars

(***************************************************************************)
(* Properties                                                              *)
(***************************************************************************)
StageDone(nb, stage) == \E i \in 1..Len(nb.stages) : nb.stages[i] = stage

IsPrefix(s, t) == Len(s) <= Len(t) /\ \A i \in 1..Len(s) : s[i] = t[i]

\* the row of the survey table a row of filtered_df was merged from
SurveyRow05(r) == CHOOSE a \in nb05.acs2005_2009_chicago : a.census_tract_id = r.tract

\* the row of the survey table a row of acs_mapped_post_2009 was merged from
SurveyRow10(r) ==
  CHOOSE a \in nb10.acs_data_post_2009 : a.GEOID = r.GEOID /\ a.year = r.year

\* the rows of a crime table that have their rates
Rated(frame) == {r \in frame : "rates" \in DOMAIN r}

\* C1 (2010-2020 part): what a tract adds to a district's total of each survey
\* variable is the tract's estimate multiplied by its proportion for the district.
C1_Apportioned10 ==
  \A r \in nb10.acs_mapped_post_2009 : \A c \in acs_variables :
    r[c] = FMul(SurveyRow10(r)[c], r.proportion)

\* C1 (2005-2009 part): what a tract adds to a district's Total_Population is
\* the tract's total population multiplied by its proportion for the district.
C1_Apportioned05 ==
  \A r \in nb05.filtered_df :
    r.Total_Population = FMul(SurveyRow05(r).RK9E001, r.proportion)

\* C1: in both survey aggregations a tract's counts are apportioned to the
\* districts in proportion to the overlapping area.
C1_ArealWeighting == C1_Apportioned10 /\ C1_Apportioned05

\* the final areal-weight table of a notebook, empty until it is computed
Weights(nb) ==
  IF StageDone(nb, "proportion computation") THEN nb.tracts_to_districts ELSE {}

ProportionsSumToOne(weights) ==
  \A t \in {r.tract : r \in weights} :
    SumSkipNa({r \in weights : r.tract = t}, "proportion") = Whole(1)

\* C2: in the areal-weight table each notebook finally uses, the proportions
\* of every tract in the table sum to 1 over the districts it intersects.
C2_ProportionsSumToOne ==
  ProportionsSumToOne(Weights(nb05)) /\ ProportionsSumToOne(Weights(nb10))

SplitTract(weights) ==
  \E r \in weights, q \in weights :
    r.tract = q.tract /\ r.dist_num # q.dist_num /\ r.proportion # q.proportion

\* C2 witness: in both notebooks a tract is split unevenly between two districts,
\* one of the tracts having lost the part that lay in district 31.
C2_Witness ==
  /\ SplitTract(Weights(nb05)) /\ SplitTract(Weights(nb10))
  /\ \E t \in input.tracts2000 : t.geometry.cells = {2, 4}
  /\ \E r \in Weights(nb05) : r.tract = TractText(TractNumbers[1])

\* C3: after normalization every district identifier of the aggregated crime
\* table is a dist_num of the district-level survey table (of the same year in
\* 2010-2020), so the left merge finds a population for every crime row.
C3_DistrictsMatch ==
  /\ StageDone(nb05, "merge with population") =>
       \A r \in nb05.crime_aggregated_monthly2005 :
         \E d \in nb05.district_aggregated2005 : d.dist_num = r.District
  /\ StageDone(nb10, "merge with population") =>
       \A r \in nb10.crime_aggregated_2010_2020 :
         \E d \in nb10.district_aggregated_post_2009 :
           d.dist_num = r.District /\ d.year = r.year

PopulationPositive(frame) ==
  \A r \in Rated(frame) : IsNum(r.Total_Population) /\ r.Total_Population.n > 0

\* C4: in every row for which the rates are computed, Total_Population is
\* present and strictly positive.
C4_PopulationPositive ==
  /\ PopulationPositive(nb05.crime_aggregated_monthly2005)
  /\ PopulationPositive(nb10.crime_aggregated_2010_2020)

RatesNonNegative(frame) ==
  \A r \in Rated(frame) :
    /\ \A t \in DOMAIN r.rates : FGeZero(r.rates[t])
    /\ "total_crime_rate" \in DOMAIN r => FGeZero(r.total_crime_rate)

\* C5: every per-category rate and every total_crime_rate of both crime tables
\* is non-negative.
C5_RatesNonNegative ==
  /\ RatesNonNegative(nb05.crime_aggregated_monthly2005)
  /\ RatesNonNegative(nb10.crime_aggregated_2010_2020)

RECURSIVE Reversed(_)
Reversed(seq) == IF seq = <<>> THEN <<>> ELSE Append(Reversed(Tail(seq)), Head(seq))

Categorized(frame) == {r \in frame : "Crime_Category" \in DOMAIN r}

CategoryIsFunctionOfType(frame) ==
  \A r \in Categorized(frame) :
    /\ r.Crime_Category \in CrimeTypeSet
    /\ r.Crime_Category = CaseWhen(Reversed(CategoryClauses), r.PrimaryType)
    /\ \A i \in 1..Len(CategoryClauses) :
         r.PrimaryType \in CategoryClauses[i].types <=>
           r.Crime_Category = CategoryClauses[i].label
    /\ (\A i \in 1..Len(CategoryClauses) : r.PrimaryType \notin CategoryClauses[i].types)
         <=> r.Crime_Category = "Other"

\* C6: STEP-1 gives every retained record exactly one of the six labels; a
\* Primary Type in none of the five lists, a missing one included, becomes
\* Other, and the label does not depend on the order of the clauses.
C6_CategoryTotalAndOrderFree ==
  CategoryIsFunctionOfType(renv.crime_units) /\ CategoryIsFunctionOfType(disk.crimeunits)

\* C6 witness: the exported file holds a record of a listed type under its
\* label, or a record with a missing Primary Type under Other.
C6_Witness ==
  /\ "crimeunits2409.parquet" \in disk.names
  /\ \E r \in disk.crimeunits :
       \/ r.PrimaryType = NAtype /\ r.Crime_Category = "Other"
       \/ r.PrimaryType = "OTHER NARCOTIC VIOLATION" /\ r.Crime_Category = "Drug-Related Crime"

RECURSIVE TotalCount(_, _)
TotalCount(counts, cols) ==
  IF cols = {} THEN 0
  ELSE LET c == CHOOSE c \in cols : TRUE IN counts[c] + TotalCount(counts, cols \ {c})

RatesAndTotal(frame) ==
  \A r \in Rated(frame) :
    /\ \A t \in DOMAIN r.rates :
         r.rates[t] = FMul(FDiv(Whole(r.counts[t]), r.Total_Population), Whole(1000))
    /\ "total_crime_rate" \in DOMAIN r =>
         r.total_crime_rate =
           FMul(FDiv(Whole(TotalCount(r.counts, DOMAIN r.counts)), r.Total_Population),
                Whole(1000))

\* C7: each rate is count / Total_Population * 1000 and total_crime_rate is
\* 1000 * (all records of the row) / Total_Population, missing when
\* Total_Population is missing.
C7_RatesAndTotal ==
  /\ RatesAndTotal(nb05.crime_aggregated_monthly2005)
  /\ RatesAndTotal(nb10.crime_aggregated_2010_2020)

PercentColumns ==
  {"Percent_Hispanic", "Percent_NonHispanic_White", "Percent_NonHispanic_Black",
   "Percent_NonHispanic_Asian", "Poverty_Percent"}

RaceColumns == PercentColumns \ {"Poverty_Percent"}

\* the district-level survey table of 2010-2020, empty until its percentages exist
DistrictOutput10 ==
  {d \in nb10.district_aggregated_post_2009 : "Total_Population" \in DOMAIN d}

IsZero(x) == x = Whole(0)

\* a notebook that stopped on an error had completed its survey stages
SurveyStagesRaiseNothing ==
  /\ nb05.error # "none" => StageDone(nb05, "aggregate by district")
  /\ nb10.error # "none" => StageDone(nb10, "aggregate by district")

\* C8: a missing survey estimate, and a percentage whose denominator is zero,
\* appear as 0 in the district-level survey output of both pipelines, and no
\* error is raised.
C8_ZeroFilled ==
  /\ SurveyStagesRaiseNothing
  /\ \A d \in nb05.district_aggregated2005 :
       \A c \in PercentColumns \cup {"Total_Population"} : IsNum(d[c])
  /\ \A d \in DistrictOutput10 :
       /\ \A c \in PercentColumns \cup {"Total_Population"} : IsNum(d[c])
       /\ IsZero(d.Total_Population) => \A c \in RaceColumns : IsZero(d[c])
       /\ IsZero(d.Total_Population_Poverty_Status) => IsZero(d.Poverty_Percent)

\* C8 as the code has it: both pipelines fill a missing survey estimate with 0
\* and raise no error; the 2005-2009 pipeline also fills a 0/0 percentage of
\* a tract with 0 before the district mean, and leaves a non-zero count over a
\* zero denominator infinite; the 2010-2020 pipeline computes the percentages
\* after its last fill, so the percentage of a district with a zero
\* denominator stays NaN or infinite in the output.
C8_FilledBeforePercentages ==
  /\ SurveyStagesRaiseNothing
  /\ \A r \in nb05.filtered_df :
       /\ \A c \in EstimateColumns05 : IsNum(SurveyRow05(r)[c])
       /\ \A c \in PercentColumns \cup {"Total_Population"} : ~IsNaN(r[c])
       /\ IsZero(r.Total_Population) =>
            r.Percent_Hispanic =
              (IF IsZero(SurveyRow05(r).RLIE012) THEN Whole(0) ELSE Inf)
  /\ \A d \in nb05.district_aggregated2005 :
       \A c \in PercentColumns \cup {"Total_Population"} : ~IsNaN(d[c])
  /\ \A a \in nb10.acs_data_post_2009 \cup nb10.acs_mapped_post_2009 :
       \A c \in acs_variables : IsNum(a[c])
  /\ \A d \in DistrictOutput10 :
       /\ IsNum(d.Total_Population) /\ IsNum(d.Total_Population_Poverty_Status)
       /\ \A c \in RaceColumns : IsZero(d.Total_Population) <=> ~IsNum(d[c])
       /\ IsZero(d.Total_Population_Poverty_Status) <=> ~IsNum(d.Poverty_Percent)

\* C8 witness: a tract whose estimates are all missing is the only tract of
\* district 12; its 2005-2009 percentage is 0, the 2010-2020 percentage of the
\* district is NaN, and both notebooks have run to their end.
C8_Witness ==
  /\ pc05 = "done" /\ pc10 = "done"
  /\ \E a \in input.acsCsv : a.COUNTYA = 31 /\ IsNaN(a.RK9E001) /\ IsNaN(a.RLIE012)
  /\ \E r \in nb05.filtered_df : IsZero(r.Total_Population) /\ IsZero(r.Percent_Hispanic)
  /\ \E d \in DistrictOutput10 : IsZero(d.Total_Population) /\ IsNaN(d.Percent_Hispanic)

\* the run of a script has gone past one of its statements or cells
Past(seq, pc, x) ==
  \/ Ended(pc)
  \/ pc # "idle" /\ IndexOf(seq, pc) > IndexOf(seq, x)

BadDate(r) == Mdy_hms(r.Date).na

\* C9: a crime record whose date is malformed raises an error in the stage
\* that reads it, as a missing input file does; the record is not dropped
\* silently.
C9_FailuresRaise ==
  /\ (input.missing = "Crimes_-_2001_to_Present_20240909.csv"
        /\ Past(Step1Statements, pcR, "read_csv")) => "read_csv" \in renv.errors
  /\ ((\E r \in input.crimeCsv : BadDate(r)) /\ Has("crime_data_filtered"))
       => "mdy_hms" \in renv.errors

Outputs05 == {"crime_2005-2009.parquet", "acs_2005-2009.parquet"}
Outputs10 == {"crime_2010-2020.parquet", "acs_2010-2020.parquet"}

MissingFileRaises ==
  /\ (input.missing = "Crimes_-_2001_to_Present_20240909.csv"
        /\ Past(Step1Statements, pcR, "read_csv")) =>
       /\ "read_csv" \in renv.errors
       /\ ~Has("crime_data") /\ renv.crime_units = {}
       /\ "crimeunits2409.parquet" \notin disk.names
       /\ rmode = "Rscript" => pcR = "halted"
  /\ (input.missing = "nhgis0006_ds195_20095_tract_E.csv" /\ Past(Cells05, pc05, "read_acs")) =>
       pc05 = "halted" /\ nb05.error = "FileNotFoundError" /\ nb05.stages = <<>>
  /\ (input.missing \in {"Census_Tracts.shp",
                         "geo_export_04c70f5d-35cd-4d51-82f4-222f5c605f9a.shp"}
        /\ Past(Cells05, pc05, "read_shapefiles")) =>
       /\ pc05 = "halted" /\ nb05.error = "DataSourceError"
       /\ nb05.stages = <<"load survey data">>
  /\ (input.missing \in {"geo_export_4ebc9dd7-55e4-4c2e-9928-4ee080c61016.shp",
                         "geo_export_04c70f5d-35cd-4d51-82f4-222f5c605f9a.shp"}
        /\ Past(Cells10, pc10, "read_shapefiles")) =>
       pc10 = "halted" /\ nb10.error = "DataSourceError" /\ nb10.stages = <<>>
  /\ (input.missing = "api.census.gov" /\ Past(Cells10, pc10, "get_acs")) =>
       pc10 = "halted" /\ nb10.error = "CensusException"
  /\ pc05 = "halted" => nb05.error # "none" /\ disk.names \cap Outputs05 = {}
  /\ pc10 = "halted" => nb10.error # "none" /\ disk.names \cap Outputs10 = {}

BadDateDropped ==
  /\ (Has("crime_data") /\ Past(Step1Statements, pcR, "mdy_hms")) => "mdy_hms" \notin renv.errors
  /\ Has("crime_data_filtered") =>
       /\ \A r \in renv.crime_data_filtered \cup renv.crime_units \cup disk.crimeunits : ~r.Date.na
       /\ \A r \in input.crimeCsv :
            BadDate(r) => \A q \in renv.crime_data_filtered \cup disk.crimeunits : q.ID # r.ID
  /\ \A r \in nb05.crime_filtered2005 \cup nb10.crime_filtered_2010_2020 : ~r.Date.na

\* C9 as the code has it: a missing input file raises an error in the
\* statement or cell that reads it, nothing retries or substitutes a value and
\* a halted notebook writes no output; a malformed date raises nothing: it
\* becomes a missing date and the filter on dates drops the record silently.
C9_MissingFileRaisesBadDateDropped == MissingFileRaises /\ BadDateDropped

\* C9 witness: the crime CSV held records with a malformed date, STEP-1 ran to
\* its end without an error of mdy_hms and exported the other records, and the
\* 2005-2009 notebook halted on the missing tract shapefile.
C9_Witness ==
  /\ pcR = "done" /\ "mdy_hms" \notin renv.errors
  /\ \E r \in input.crimeCsv : BadDate(r)
  /\ disk.crimeunits # {}
  /\ Cardinality(disk.crimeunits) < Cardinality(input.crimeCsv)
  /\ input.missing = "Census_Tracts.shp" /\ pc05 = "halted"

ClaimedStages ==
  <<"load shapefiles", "reproject", "spatial overlay", "proportion computation",
    "load survey data", "merge by tract", "aggregate by district", "load crime records",
    "filter", "merge with population", "compute rates", "persist">>

Stages05 ==
  <<"load survey data", "load shapefiles", "reproject", "spatial overlay",
    "proportion computation", "merge by tract", "aggregate by district",
    "load crime records", "filter", "merge with population", "compute rates", "persist">>

\* C10: the stages of each notebook run in the order load shapefiles,
\* reproject, overlay, proportions, load survey data, merge by tract, aggregate
\* by district, load crime records, filter, merge with population, rates,
\* persist, each after the one before it has completed.
C10_StageOrder ==
  IsPrefix(nb05.stages, ClaimedStages) /\ IsPrefix(nb10.stages, ClaimedStages)

\* C10 as the code has it: the 2010-2020 notebook runs its stages in that
\* order; the 2005-2009 notebook loads the survey data first, before the
\* shapefiles, and runs the other stages in that order.
C10_StageOrders ==
  IsPrefix(nb05.stages, Stages05) /\ IsPrefix(nb10.stages, ClaimedStages)

\* C10 witness: both notebooks have run all their stages.
C10_Witness ==
  /\ pc05 = "done" /\ pc10 = "done"
  /\ nb05.stages = Stages05 /\ nb10.stages = ClaimedStages

\* the inputs of SpecJoin: survey tables that lack some of the tracts of the
\* map, maps that lack some of the tracts of the survey
InputsJoin ==
  {[InputRecord(CrimeCsv({Mid2005, Mid2010}, {<<"0", "0", "5">>}, SixTypes, MaxCopies),
                shp, <<f1, f2>>, <<Estimates(Whole(MaxPop), Whole(1)), e2>>,
                <<f1, f2>>, <<Estimates(Whole(MaxPop), Whole(1)), e2>>, "none")
      EXCEPT !.acsCsv = {r \in @ : r.TRACTA \in keep}
                       \cup {AcsCsvRow(17, 31, 980000, Estimates(Whole(1), Whole(1)))},
             !.acsApi = {r \in @ : r.tract \in {ZFill(Digits(t), 6) : t \in keep}}] :
     shp \in DistrictFiles,
     f1 \in {{1, 3}, {2, 4}},
     f2 \in {{1, 2, 3}, {4}},
     e2 \in {Estimates(Whole(1), Whole(0)), Estimates(NaN, NaN)},
     keep \in SUBSET {TractNumbers[1], TractNumbers[2]}}

SpecJoin == InitWith(InputsJoin, {"interactive"}) /\ [][Next]_vars

RECURSIVE SumTerms(_)
\* the sum of the third component of a set of triples
SumTerms(terms) ==
  IF terms = {} THEN Whole(0)
  ELSE LET t == CHOOSE t \in terms : TRUE IN FAdd(t[3], SumTerms(terms \ {t}))

\* the pairs (weight row, survey row) of the tracts that both tables have
Both05 ==
  {p \in nb05.tracts_to_districts \X nb05.acs2005_2009_chicago :
     p[1].tract = p[2].census_tract_id}

Both10 ==
  {p \in nb10.tracts_to_districts \X nb10.acs_data_post_2009 : p[1].tract = p[2].GEOID}

TractMerge05 ==
  /\ StageDone(nb05, "merge by tract") =>
       {<<r.tract, r.dist_num>> : r \in nb05.filtered_df}
         = {<<p[1].tract, p[1].dist_num>> : p \in Both05}
  /\ StageDone(nb05, "aggregate by district") =>
       /\ {d.dist_num : d \in nb05.district_aggregated2005} = {p[1].dist_num : p \in Both05}
       /\ \A d \in nb05.district_aggregated2005 :
            d.Total_Population =
              SumTerms({<<p[1], p[2], p[2].RK9E001>> :
                          p \in {q \in Both05 : q[1].dist_num = d.dist_num}})

TractMerge10 ==
  /\ StageDone(nb10, "merge by tract") =>
       {<<r.GEOID, r.year, r.dist_num>> : r \in nb10.acs_mapped_post_2009}
         = {<<p[2].GEOID, p[2].year, p[1].dist_num>> : p \in Both10}
  /\ StageDone(nb10, "aggregate by district") =>
       /\ {<<d.dist_num, d.year>> : d \in nb10.district_aggregated_post_2009}
            = {<<p[1].dist_num, p[2].year>> : p \in Both10}
       /\ \A d \in DistrictOutput10 :
            d.Total_Population =
              SumTerms({<<p[1], p[2], FMul(p[2].B01003_001E, p[1].proportion)>> :
                          p \in {q \in Both10 : q[1].dist_num = d.dist_num
                                                /\ q[2].year = d.year}})

\* C11: in both pipelines a tract adds to a district-level survey record only
\* if its identifier is in the areal-weight table and in the survey table; a
\* tract that only one of the two has is dropped, and no error is raised.
C11_TractsInBothTables == TractMerge05 /\ TractMerge10 /\ SurveyStagesRaiseNothing

\* C11 witness: both notebooks have aggregated by district, with a tract that
\* only the areal-weight table has and a tract that only the survey table has.
C11_Witness ==
  /\ StageDone(nb05, "aggregate by district") /\ StageDone(nb10, "aggregate by district")
  /\ nb05.district_aggregated2005 # {} /\ DistrictOutput10 # {}
  /\ \E w \in nb05.tracts_to_districts :
       \A a \in nb05.acs2005_2009_chicago : a.census_tract_id # w.tract
  /\ \E a \in nb05.acs2005_2009_chicago :
       \A w \in nb05.tracts_to_districts : a.census_tract_id # w.tract
  /\ \E w \in nb10.tracts_to_districts :
       \A a \in nb10.acs_data_post_2009 : a.GEOID # w.tract
  /\ \E a \in nb10.acs_data_post_2009 :
       \A w \in nb10.tracts_to_districts : a.GEOID # w.tract

ParquetColumnsRead == {"Date", "District", "Crime_Category"}

ReadAfterWritten(nb) ==
  StageDone(nb, "load crime records") =>
    /\ "crimeunits2409.parquet" \in disk.names
    /\ pcR = "done" /\ "write_parquet" \notin renv.errors
    /\ {r.ID : r \in nb.crime_data} = {r.ID : r \in disk.crimeunits}

\* C12: a STEP-2 notebook reads crimeunits2409.parquet only after STEP-1 has
\* written it, what it reads is what STEP-1 wrote, and Date, District and
\* Crime_Category are columns of every record STEP-1 writes.
C12_ParquetReadAfterStep1 ==
  /\ ReadAfterWritten(nb05) /\ ReadAfterWritten(nb10)
  /\ "crimeunits2409.parquet" \in disk.names =>
       /\ disk.crimeunits = renv.crime_units
       /\ \A r \in disk.crimeunits : ParquetColumnsRead \subseteq DOMAIN r

\* C12 witness: STEP-1 wrote records and both notebooks have read them.
C12_Witness ==
  /\ StageDone(nb05, "load crime records") /\ StageDone(nb10, "load crime records")
  /\ nb05.crime_data # {} /\ nb10.crime_data # {}

SixCountColumns(nb) ==
  /\ nb.error # "KeyError"
  /\ StageDone(nb, "merge with population") => CrimeTypeSet \subseteq nb.columns

\* C13: whatever crime records pass the period filter, the aggregated table has
\* a count column for each of the six labels and the rate loop produces the
\* six rate columns without error, also when a category has no record.
C13_SixCountColumns == SixCountColumns(nb05) /\ SixCountColumns(nb10)

\* the period-filtered records counted in a row of an aggregated table
RecordsOf(row, filtered) ==
  {r \in filtered : /\ LStrip0(r.District) = LStrip0(row.District)
                    /\ r.year.v = row.year /\ r.month.v = row.month}

RECURSIVE CountedIn(_)
\* the sum of the counts of all rows of an aggregated table
CountedIn(table) ==
  IF table = {} THEN 0
  ELSE LET row == CHOOSE row \in table : TRUE
       IN TotalCount(row.counts, DOMAIN row.counts) + CountedIn(table \ {row})

Conserves(table, filtered) ==
  /\ \A row \in table :
       /\ RecordsOf(row, filtered) # {}
       /\ TotalCount(row.counts, DOMAIN row.counts) = Cardinality(RecordsOf(row, filtered))
  /\ \A r \in filtered : Cardinality({row \in table : r \in RecordsOf(row, filtered)}) = 1
  /\ CountedIn(table) = Cardinality(filtered)

\* C14: in both pipelines the counts of the row of a (district, year, month)
\* add up to the number of period-filtered records of that district, year and
\* month, the counts of all rows add up to the number of period-filtered
\* records, and a (district, year, month) without a record has no row.
C14_AggregationConserves ==
  /\ Past(Cells05, pc05, "groupby") =>
       Conserves(nb05.crime_aggregated_monthly2005, nb05.crime_filtered2005)
  /\ Past(Cells10, pc10, "groupby") =>
       Conserves(nb10.crime_aggregated_2010_2020, nb10.crime_filtered_2010_2020)

\* C14 witness: both aggregated tables are built, with two records counted in
\* one category of a row and records of two districts.
C14_Witness ==
  /\ StageDone(nb05, "merge with population") /\ StageDone(nb10, "merge with population")
  /\ \E row \in nb05.crime_aggregated_monthly2005 : \E c \in DOMAIN row.counts : row.counts[c] > 1
  /\ \E row \in nb10.crime_aggregated_2010_2020 : \E c \in DOMAIN row.counts : row.counts[c] > 1
  /\ Cardinality(nb05.crime_aggregated_monthly2005) > 1
  /\ Cardinality(nb10.crime_aggregated_2010_2020) > 1

\* the rows of an aggregated crime table without the columns a merge adds,
\* the district without leading zeros
CrimeKeys(table) ==
  {<<LStrip0(r.District), r.year, r.month, r.counts>> : r \in table}

OneRowPerKey(table) ==
  \A a \in table, b \in table :
    (a.District = b.District /\ a.year = b.year /\ a.month = b.month) => a = b

MergeKeepsRows(nb, table, filtered, survey) ==
  /\ \A a \in survey, b \in survey :
       (a.dist_num = b.dist_num /\ ("year" \in DOMAIN a => a.year = b.year)) => a = b
  /\ StageDone(nb, "merge with population") =>
       /\ OneRowPerKey(table)
       /\ CrimeKeys(table) = CrimeKeys(GroupBySize(filtered))
       /\ Cardinality(table) = Cardinality(GroupBySize(filtered))

\* C15: the left merge with the population neither adds nor removes rows: the
\* aggregated crime table still has exactly one row for each (district, year,
\* month), the survey table having at most one row for a district (2005-2009)
\* or for a district and year (2010-2020).
C15_MergeKeepsRows ==
  /\ MergeKeepsRows(nb05, nb05.crime_aggregated_monthly2005, nb05.crime_filtered2005,
                    nb05.district_aggregated2005)
  /\ MergeKeepsRows(nb10, nb10.crime_aggregated_2010_2020, nb10.crime_filtered_2010_2020,
                    nb10.district_aggregated_post_2009)

\* C15 witness: both merges are done, on crime tables of two districts of which
\* one has a population and the other has none, the survey tables being built
\* from two tracts of one district.
C15_Witness ==
  /\ StageDone(nb05, "merge with population") /\ StageDone(nb10, "merge with population")
  /\ \E a \in nb05.crime_aggregated_monthly2005, b \in nb05.crime_aggregated_monthly2005 :
       IsNum(a.Total_Population) /\ IsNaN(b.Total_Population)
  /\ \E a \in nb10.crime_aggregated_2010_2020, b \in nb10.crime_aggregated_2010_2020 :
       IsNum(a.Total_Population) /\ IsNaN(b.Total_Population)
  /\ \E a \in nb05.filtered_df, b \in nb05.filtered_df :
       a.dist_num = b.dist_num /\ a.Total_Population # b.Total_Population

\* dates at the edges of the periods
EdgeDates ==
  {<<12, 31, 2003, 86399>>, <<1, 1, 2004, 0>>, <<12, 31, 2009, 86399>>, <<1, 1, 2010, 0>>,
   <<12, 31, 2020, 0>>, <<12, 31, 2020, Noon>>, <<1, 1, 2021, 0>>}

\* the inputs of SpecDates: crime CSVs with records at the edges of the periods
InputsDates ==
  {InputRecord(CrimeCsv({Mid2005, Mid2010} \cup edges, {<<"0", "0", "5">>}, SixTypes,
                        MaxCopies),
               DistrictPolygons, <<{1, 3}, {2}>>,
               <<Estimates(Whole(MaxPop), Whole(1)), Estimates(Whole(1), Whole(0))>>,
               <<{1, 3}, {2}>>,
               <<Estimates(Whole(MaxPop), Whole(1)), Estimates(Whole(1), Whole(0))>>,
               "none") :
     edges \in SUBSET EdgeDates}

SpecDates == InitWith(InputsDates, {"Rscript", "interactive"}) /\ [][Next]_vars

IDs(frame) == {r.ID : r \in frame}

\* C16: STEP-1 keeps a crime record if and only if its date-time falls in the
\* calendar years 2004 to 2020: a record at any time of day on 31 December
\* 2020 is kept, one before 1 January 2004 or after 31 December 2020 is dropped.
C16_CalendarYears ==
  Has("crime_data_filtered") =>
    \A r \in input.crimeCsv :
      r.ID \in IDs(renv.crime_data_filtered)
        <=> (~BadDate(r) /\ Mdy_hms(r.Date).y \in 2004..2020)

YearsWithin(frame, lo, hi) == \A r \in frame : r.year \in lo..hi

ListedTexts ==
  {T3("0","0","5"), T3("0","1","2"), T3("0","1","3"), T3("0","2","1"), T3("0","2","3"),
   T3("0","0","2"), T3("0","2","0"), <<"5">>}

UnlistedTexts == {T3("0","3","1"), <<"2", "6">>, T3("0","0","0"), <<"X">>, <<>>}

\* the inputs of SpecDistricts: crime CSVs with the districts of a listed and
\* of an unlisted District text, or of two listed ones
InputsDistricts ==
  {InputRecord(CrimeCsv({Mid2005, Mid2010}, dists, SixTypes, MaxCopies),
               DistrictPolygons, <<{1, 3}, {2}>>,
               <<Estimates(Whole(MaxPop), Whole(1)), Estimates(Whole(1), Whole(0))>>,
               <<{1, 3}, {2}>>,
               <<Estimates(Whole(MaxPop), Whole(1)), Estimates(Whole(1), Whole(0))>>,
               "none") :
     dists \in {{a, b} : a \in ListedTexts, b \in UnlistedTexts \cup ListedTexts}}

SpecDistricts == InitWith(InputsDistricts, {"Rscript", "interactive"}) /\ [][Next]_vars

\* the 22 current district codes
CurrentCodes == {ZFill(Digits(n), 3) : n \in (1..12) \cup (14..20) \cup {22, 24, 25}}

DeprecatedCodes == {T3("0","1","3"), T3("0","2","1"), T3("0","2","3")}

\* what the recode is to make of a code
Recoded(d) ==
  IF d = T3("0","1","3") THEN T3("0","1","2")
  ELSE IF d = T3("0","2","1") THEN T3("0","0","2")
  ELSE IF d = T3("0","2","3") THEN T3("0","1","9")
  ELSE d

RecodeDone ==
  Past(Step1Statements, pcR, "recode") /\ Has("crime_units") /\ "recode" \notin renv.errors

\* C18: after the district filter and the recode every record has one of the
\* 22 current codes and none has 013, 021 or 023; the recode changes exactly
\* the records of 013, 021, 023 (to 012, 002, 019) and nothing else of any
\* record, and a second recode would change nothing.
C18_RecodeToCurrentCodes ==
  /\ \A r \in disk.crimeunits : r.District \in CurrentCodes
  /\ RecodeDone =>
       /\ IDs(renv.crime_units)
            = IDs({c \in renv.crime_clean : c.District \in CurrentCodes \cup DeprecatedCodes})
       /\ \A r \in renv.crime_units :
            /\ r.District \in CurrentCodes /\ r.District \notin DeprecatedCodes
            /\ district_mapping(r.District) = r.District
            /\ \E c \in renv.crime_clean :
                 /\ c.ID = r.ID /\ r.District = Recoded(c.District)
                 /\ c.Date = r.Date /\ c.Beat = r.Beat /\ c.PrimaryType = r.PrimaryType

\* C18 witness: the export holds a record that came with 013 and has 012, and
\* a record that came with 005 and kept it.
C18_Witness ==
  /\ RecodeDone /\ "crimeunits2409.parquet" \in disk.names
  /\ \E r \in disk.crimeunits, c \in renv.crime_clean :
       c.ID = r.ID /\ c.District = T3("0","1","3") /\ r.District = T3("0","1","2")
  /\ \E r \in disk.crimeunits, c \in renv.crime_clean :
       c.ID = r.ID /\ c.District = T3("0","0","5") /\ r.District = T3("0","0","5")

\* a District text of the CSV that stands for one of the 25 listed codes
Listed(text) == IsDigits(text) /\ ParseDigits(text) \in 1..25

\* C19: a record whose District is missing, not a number or not one of the 25
\* listed codes is left out of the export, no error is raised for it, and
\* every exported record came with one of the 25 listed codes.
C19_UnlistedDistrictExcluded ==
  /\ Has("crime_data") =>
       renv.errors \subseteq {"st_read", "unique_post_2012", "print_unique_pre_2012"}
  /\ \A r \in renv.crime_units \cup disk.crimeunits :
       \E c \in input.crimeCsv :
         /\ c.ID = r.ID /\ Listed(c.District)
         /\ r.District \in {ZFill(Digits(ParseDigits(c.District)), 3),
                            Recoded(ZFill(Digits(ParseDigits(c.District)), 3))}
  /\ "crimeunits2409.parquet" \in disk.names =>
       IDs(disk.crimeunits) = IDs({c \in input.crimeCsv : Listed(c.District)})

\* C19 witness: STEP-1 wrote its export from a CSV that has records with a
\* missing, a non-numeric or an unlisted District, without them.
C19_Witness ==
  /\ "crimeunits2409.parquet" \in disk.names /\ disk.crimeunits # {}
  /\ \E c \in input.crimeCsv :
       c.District \in {<<>>, <<"X">>, T3("0","3","1")} /\ c.ID \notin IDs(disk.crimeunits)

District31 == Text2("3", "1")

No31(frame) == \A r \in frame : r.dist_num # District31

\* C20: district 31 is removed from the district polygons before the overlay
\* in both pipelines, no areal-weight record and no district-level survey
\* record refers to it, and the later filter on dist_num of the 2005-2009
\* pipeline removes no row and leaves the proportions as they were.
C20_District31Removed ==
  /\ StageDone(nb05, "spatial overlay") =>
       No31(nb05.districts) /\ \A d \in nb05.districts : d.dist_label # "31ST"
  /\ StageDone(nb10, "spatial overlay") =>
       No31(nb10.cpd_districts) /\ \A d \in nb10.cpd_districts : d.dist_label # "31ST"
  /\ No31(nb05.tracts_to_districts) /\ No31(nb10.tracts_to_districts)
  /\ No31(nb05.filtered_df) /\ No31(nb10.acs_mapped_post_2009)
  /\ No31(nb05.district_aggregated2005) /\ No31(nb10.district_aggregated_post_2009)
  /\ No31(disk.acs_2005_2009) /\ No31(disk.acs_2010_2020)
  /\ StageDone(nb05, "proportion computation") =>
       nb05.tracts_to_districts = Proportions(Overlay(nb05.tracts, nb05.districts))

\* C20 witness: both notebooks wrote their survey output from a map with the
\* polygons of district 31, a tract lying partly in district 31.
C20_Witness ==
  /\ pc05 = "done" /\ pc10 = "done"
  /\ disk.acs_2005_2009 # {} /\ disk.acs_2010_2020 # {}
  /\ \E d \in input.districtsShp : d.dist_label = "31ST" /\ d.dist_num = District31
  /\ \E t \in nb05.tracts : t.geometry.cells = {2, 4}
       /\ \E w \in nb05.tracts_to_districts : w.tract = t.tract /\ w.proportion = Whole(1)
  /\ \E t \in nb10.chicago_census : t.geometry.cells = {2, 4}
       /\ \E w \in nb10.tracts_to_districts : w.tract = t.tract /\ w.proportion = Whole(1)

\* the survey rows of the tracts the tract-level merge matched
Matched05 ==
  {a \in nb05.acs2005_2009_chicago :
     \E w \in nb05.tracts_to_districts : w.tract = a.census_tract_id}

Matched10(year) ==
  {a \in nb10.acs_data_post_2009 :
     a.year = year /\ \E w \in nb10.tracts_to_districts : w.tract = a.GEOID}

\* C21 (2010-2020 part): for each year the Total_Population of all districts
\* adds up to the total population of the matched tracts.
C21_Conserved10 ==
  \A y \in {d.year : d \in DistrictOutput10} :
    SumSkipNa({d \in DistrictOutput10 : d.year = y}, "Total_Population")
      = SumSkipNa(Matched10(y), "B01003_001E")

\* C21 (2005-2009 part): the Total_Population of all districts adds up to the
\* total population of the matched tracts.
C21_Conserved05 ==
  StageDone(nb05, "aggregate by district") =>
    SumSkipNa(nb05.district_aggregated2005, "Total_Population")
      = SumSkipNa(Matched05, "RK9E001")

\* C21: in each pipeline the aggregation to districts conserves population: a
\* tract that overlaps several districts is counted once in total.
C21_PopulationConserved == C21_Conserved10 /\ C21_Conserved05

WeightTable(nb) == {<<w.tract, w.dist_num, w.proportion>> : w \in nb.tracts_to_districts}

\* the 2005-2009 survey table and the 2010-2020 survey table of one year have
\* the same estimates for the same tracts
SameEstimates(year) ==
  /\ {a.census_tract_id : a \in nb05.acs2005_2009_chicago}
       = {b.GEOID : b \in {q \in nb10.acs_data_post_2009 : q.county = <<"0", "3", "1">>}}
  /\ \A a \in nb05.acs2005_2009_chicago :
       \A b \in {q \in nb10.acs_data_post_2009 : q.year = year} :
         a.census_tract_id = b.GEOID =>
           /\ a.RK9E001 = b.B01003_001E /\ a.RLIE003 = b.B03002_003E
           /\ a.RLIE004 = b.B03002_004E /\ a.RLIE006 = b.B03002_006E
           /\ a.RLIE012 = b.B03002_012E /\ a.RNBE001 = b.C17002_001E
           /\ a.RNBE002 = b.C17002_002E /\ a.RNBE003 = b.C17002_003E

\* C22: given the same tract estimates and the same areal-weight table, the
\* 2005-2009 aggregation yields for each district the Total_Population, the
\* Poverty_Percent and the race and ethnicity percentages that the 2010-2020
\* aggregation yields for one year.
C22_PipelinesAgree ==
  (/\ StageDone(nb05, "aggregate by district") /\ DistrictOutput10 # {}
   /\ WeightTable(nb05) = WeightTable(nb10)
   /\ SameEstimates(2010)) =>
    \A d \in nb05.district_aggregated2005 :
      \A e \in {q \in DistrictOutput10 : q.year = 2010 /\ q.dist_num = d.dist_num} :
        \A c \in PercentColumns \cup {"Total_Population"} : d[c] = e[c]

StripFrame(frame) == {[r EXCEPT !.District = LStrip0(r.District)] : r \in frame}

RawKeys(table) == {<<r.District, r.year, r.month, r.counts>> : r \in table}

\* stripping before or after the aggregation of a frame gives the table
StripCommutes(frame, table) ==
  /\ RawKeys(GroupBySize(StripFrame(frame))) = RawKeys(StripFrame(GroupBySize(frame)))
  /\ RawKeys(table) = RawKeys(StripFrame(GroupBySize(frame)))
  /\ Cardinality(table) = Cardinality(GroupBySize(frame))

\* C23: stripping the leading zeros is injective on the district codes STEP-1
\* exports, and aggregating before stripping (2010-2020) gives the groups and
\* counts that stripping before aggregating (2005-2009) gives.
C23_StripInjective ==
  /\ \A a \in CurrentCodes, b \in CurrentCodes : LStrip0(a) = LStrip0(b) => a = b
  /\ \A r \in disk.crimeunits, q \in disk.crimeunits :
       LStrip0(r.District) = LStrip0(q.District) => r.District = q.District
  /\ (StageDone(nb05, "filter") /\ Past(Cells05, pc05, "groupby")) =>
       StripCommutes(FilterYears(nb05.crime_data, 2005, 2009),
                     nb05.crime_aggregated_monthly2005)
  /\ (StageDone(nb10, "filter") /\ Past(Cells10, pc10, "lstrip")) =>
       StripCommutes(nb10.crime_filtered_2010_2020, nb10.crime_aggregated_2010_2020)

\* C23 witness: both notebooks have aggregated and stripped an export that
\* holds the districts 002 and 020.
C23_Witness ==
  /\ StageDone(nb05, "merge with population") /\ StageDone(nb10, "merge with population")
  /\ {T3("0","0","2"), T3("0","2","0")} \subseteq {r.District : r \in disk.crimeunits}
  /\ {<<"2">>, <<"2", "0">>} \subseteq {r.District : r \in nb05.crime_aggregated_monthly2005}
  /\ {<<"2">>, <<"2", "0">>} \subseteq {r.District : r \in nb10.crime_aggregated_2010_2020}

\* the columns of one row of a crime table
Columns(r) ==
  {<<"column", c>> : c \in DOMAIN r \ {"counts", "rates"}}
    \cup {<<"count", t>> : t \in DOMAIN r.counts}
    \cup (IF "rates" \in DOMAIN r THEN {<<"rate", t>> : t \in DOMAIN r.rates} ELSE {})

ListedColumns ==
  {<<"column", c>> : c \in {"District", "year", "month", "Total_Population", "total_crime_rate"}}
    \cup {<<"count", t>> : t \in CrimeTypeSet}
    \cup {<<"rate", t>> : t \in CrimeTypeSet}

\* C24: the two crime output files carry the same set of fields in every row:
\* district, year, month, the six category counts, Total_Population, the six
\* rates and total_crime_rate, and no other column.
C24_SameFields ==
  /\ \A r \in disk.crime_2005_2009 : Columns(r) = ListedColumns
  /\ \A q \in disk.crime_2010_2020 : Columns(q) = ListedColumns
  /\ \A r \in disk.crime_2005_2009, q \in disk.crime_2010_2020 : Columns(r) = Columns(q)

\* C25: run top to bottom on well-formed input, STEP-1 reaches its export
\* step: no statement stops the script, because every function and variable a
\* statement uses is provided by a library loaded earlier or defined by an
\* earlier statement.
C25_ReachesExport ==
  input.missing = "none" =>
    /\ renv.errors = {}
    /\ pcR # "halted"
    /\ pcR = "done" => "crimeunits2409.parquet" \in disk.names

====
